---------------------------- MODULE Spec2Model ----------------------------
(***************************************************************************)
(* A model of the Unic magazine MCP server (mcp-server/src): the article   *)
(* service (corpus load and query primitives), the widget resolver, the    *)
(* tool registry and the per-request session transport.                    *)
(*                                                                         *)
(* Conventions.  A JavaScript string is a sequence of tokens (a token is   *)
(* one character, or one opaque chunk such as a date or a URL prefix).     *)
(* An optional value is a sequence of length 0 (undefined) or 1.           *)
(* A function that can throw returns [threw, error, value].                *)
(***************************************************************************)
EXTENDS Integers, Sequences, FiniteSets, TLC

VARIABLES
    \* ---- the process and its file system -------------------------------
    mode,                 \* "serverless" (api/mcp.js) or "local" (startServer)
    procState,            \* "starting" | "serving" | "crashed"
    corpusFile,           \* state of the file at BLOG_DATA_PATH
    fsChangesLeft,        \* how often the corpus file may still change
    widgetFs,             \* the files the widget resolver looks at
    processEnv,           \* process.env: NODE_ENV and ALLOWED_ORIGIN
    \* ---- module-level state of server.js / article-service.js ----------
    widgetsInitialized,
    articleListWidget,
    articlePreviewWidget,
    magazineArticles,
    articlesBySlug,
    \* ---- per-request state of handleMcpRequest -------------------------
    req,                  \* the request: method, session header, body
    pc,                   \* position of the request's handler
    res,                  \* the HTTP response written so far
    session,              \* the McpServer + transport the request owns
    resClosed,            \* the response's 'close' event has fired
    \* ---- history -------------------------------------------------------
    hist,                 \* counters of executions of the one-time steps
    \* ---- a call of a query primitive (specification SpecQuery) ---------
    qcall,
    \* ---- unic-server/src/server.ts: the Map of live SSE sessions --------
    sessions

vars == <<mode, procState, corpusFile, fsChangesLeft, widgetFs, processEnv,
          widgetsInitialized, articleListWidget, articlePreviewWidget,
          magazineArticles, articlesBySlug,
          req, pc, res, session, resClosed, hist, qcall, sessions>>

-----------------------------------------------------------------------------
(* Optional values and results of functions that can throw. *)

None == <<>>
Some(x) == <<x>>
IsSome(o) == Len(o) > 0
Get(o) == o[1]

Returned(v) == [threw |-> FALSE, error |-> "", value |-> v]
Thrown(e) == [threw |-> TRUE, error |-> e, value |-> None]

-----------------------------------------------------------------------------
(* Strings. *)

\* String.prototype.toLowerCase on the letters and the chunks the model uses.
LowerToken(c) ==
    CASE c = "TEXT/EVENT-STREAM" -> "text/event-stream"
      [] c = "Text/Event-Stream" -> "text/event-stream"
      [] c = "APPLICATION/JSON" -> "application/json"
      [] c = "A" -> "a"
      [] c = "B" -> "b"
      [] c = "C" -> "c"
      [] c = "D" -> "d"
      [] c = "E" -> "e"
      [] c = "F" -> "f"
      [] c = "G" -> "g"
      [] c = "H" -> "h"
      [] c = "I" -> "i"
      [] c = "J" -> "j"
      [] c = "K" -> "k"
      [] c = "L" -> "l"
      [] c = "M" -> "m"
      [] c = "N" -> "n"
      [] c = "O" -> "o"
      [] c = "P" -> "p"
      [] c = "Q" -> "q"
      [] c = "R" -> "r"
      [] c = "S" -> "s"
      [] c = "T" -> "t"
      [] c = "U" -> "u"
      [] c = "V" -> "v"
      [] c = "W" -> "w"
      [] c = "X" -> "x"
      [] c = "Y" -> "y"
      [] c = "Z" -> "z"
      [] OTHER -> c

toLowerCase(s) == [i \in 1..Len(s) |-> LowerToken(s[i])]

\* String.prototype.includes: needle occurs as a contiguous run of s.
includes(s, needle) ==
    \E i \in 1..(Len(s) - Len(needle) + 1) :
        SubSeq(s, i, i + Len(needle) - 1) = needle

IsSpace(c) == c = " "

RECURSIVE TrimLeft(_)
TrimLeft(s) ==
    IF s # <<>> /\ IsSpace(Head(s)) THEN TrimLeft(Tail(s)) ELSE s

RECURSIVE TrimRight(_)
TrimRight(s) ==
    IF s # <<>> /\ IsSpace(s[Len(s)])
    THEN TrimRight(SubSeq(s, 1, Len(s) - 1))
    ELSE s

\* String.prototype.trim
trim(s) == TrimRight(TrimLeft(s))

\* JavaScript truthiness of an optional string: defined and non-empty.
Truthy(o) == IsSome(o) /\ Get(o) # <<>>

-----------------------------------------------------------------------------
(* Dates.  Date.parse on the date strings of the model: the time value of  *)
(* a string that parses, None (NaN) for one that does not.                 *)

DateParse(s) ==
    CASE s = <<"2024-01-01">> -> Some(20240101)
      [] s = <<"2024-01-15">> -> Some(20240115)
      [] s = <<"2024-02-01">> -> Some(20240201)
      [] s = <<"2024-03-01">> -> Some(20240301)
      [] OTHER -> None

\* article-service.js isValidDate: !isNaN(new Date(dateString).getTime())
isValidDate(dateString) == IsSome(DateParse(dateString))

\* new Date(s).getTime() of a string known to parse
getTime(s) == Get(DateParse(s))

-----------------------------------------------------------------------------
(* article-service.js: configuration and limits *)

DEFAULT_LIMIT == 10
MAX_LIMIT == 100

Min(a, b) == IF a < b THEN a ELSE b
Max(a, b) == IF a > b THEN a ELSE b

\* A plausible slip: the ceiling is applied, the floor is not.
clampLimitNoFloor(limit) ==
    IF limit = None THEN DEFAULT_LIMIT ELSE Min(Get(limit), MAX_LIMIT)

\* clampLimit(limit): limit is None (undefined) or Some(n)
clampLimit(limit) ==
    IF limit = None
    THEN DEFAULT_LIMIT
    ELSE Min(Max(1, Get(limit)), MAX_LIMIT)

\* a default parameter value: `limit = CONFIG.DEFAULT_LIMIT`
DefaultLimit(limit) == IF limit = None THEN Some(DEFAULT_LIMIT) ELSE limit

\* Array.prototype.slice(0, n) for n >= 0
slice(s, n) == SubSeq(s, 1, Min(n, Len(s)))

-----------------------------------------------------------------------------
(* Articles.  A raw record of the corpus file has optional string fields   *)
(* slug, title, publicationDate, lead and link, and an author that is      *)
(* absent, a string, or an object with an optional name.  A loaded article *)
(* has the same fields with slug, title and publicationDate replaced by    *)
(* their trimmed strings.                                                  *)

NoAuthor == [kind |-> "absent", name |-> None]
AuthorString(s) == [kind |-> "string", name |-> Some(s)]
AuthorObject(n) == [kind |-> "object", name |-> n]

\* A plausible slip: the title is tested before it is trimmed, so a title of
\* blanks passes.
isLoadedArticleBlankTitle(article) ==
    LET slug == IF IsSome(article.slug) THEN Some(trim(Get(article.slug))) ELSE None
        publicationDate ==
            IF IsSome(article.publicationDate)
            THEN Some(trim(Get(article.publicationDate)))
            ELSE None
    IN  /\ Truthy(slug)
        /\ Truthy(article.title)
        /\ Truthy(publicationDate)
        /\ IsSome(DateParse(Get(publicationDate)))

\* isLoadedArticle(article) of a raw record
isLoadedArticle(article) ==
    LET slug == IF IsSome(article.slug) THEN Some(trim(Get(article.slug))) ELSE None
        title == IF IsSome(article.title) THEN Some(trim(Get(article.title))) ELSE None
        publicationDate ==
            IF IsSome(article.publicationDate)
            THEN Some(trim(Get(article.publicationDate)))
            ELSE None
    IN  /\ Truthy(slug)
        /\ Truthy(title)
        /\ Truthy(publicationDate)
        /\ IsSome(DateParse(Get(publicationDate)))

\* getAuthorRaw(article): the trimmed author name, or None (null)
getAuthorRaw(article) ==
    CASE article.author.kind = "absent" -> None
      [] article.author.kind = "string" ->
            IF Get(article.author.name) = <<>>  \* '' is falsy: !article.author
            THEN None
            ELSE IF Len(trim(Get(article.author.name))) > 0
                 THEN Some(trim(Get(article.author.name)))
                 ELSE None
      [] OTHER ->
            IF IsSome(article.author.name) /\ Len(trim(Get(article.author.name))) > 0
            THEN Some(trim(Get(article.author.name)))
            ELSE None

\* the literal 'Editorial team'
EditorialTeam == <<"E", "d", "i", "t", "o", "r", "i", "a", "l", " ", "t", "e", "a", "m">>

\* getAuthorName(article): getAuthorRaw(article) ?? 'Editorial team'
getAuthorName(article) ==
    IF IsSome(getAuthorRaw(article)) THEN Get(getAuthorRaw(article)) ELSE EditorialTeam

\* authorMatches(article, lowerQuery)
authorMatches(article, lowerQuery) ==
    LET name == getAuthorRaw(article)
    IN  IF IsSome(name) THEN includes(toLowerCase(Get(name)), lowerQuery) ELSE FALSE

\* the record loadMagazineArticles builds from a raw record that passed
\* isLoadedArticle: {...article, slug, title, publicationDate}
NormalizeArticle(article) ==
    [article EXCEPT !.slug = trim(Get(article.slug)),
                    !.title = trim(Get(article.title)),
                    !.publicationDate = trim(Get(article.publicationDate))]

\* A plausible slip: a slug that is already indexed is not replaced.
RECURSIVE BuildSlugIndexFirstWins(_, _)
BuildSlugIndexFirstWins(articles, index) ==
    IF articles = <<>> THEN index
    ELSE LET a == Head(articles)
             rest == [s \in (DOMAIN index) \cup {a.slug} |->
                         IF s \in DOMAIN index THEN index[s] ELSE a]
         IN  BuildSlugIndexFirstWins(Tail(articles), rest)

\* the articlesBySlug Map after clear() and set(article.slug, article) for
\* each article in order: a later article replaces an earlier one
RECURSIVE BuildSlugIndex(_, _)
BuildSlugIndex(articles, index) ==
    IF articles = <<>> THEN index
    ELSE LET a == Head(articles)
             rest == [s \in (DOMAIN index) \cup {a.slug} |->
                         IF s = a.slug THEN a ELSE index[s]]
         IN  BuildSlugIndex(Tail(articles), rest)

EmptyIndex == [s \in {} |-> None]

\* A plausible slip (the shape of unic-server's loader): the catch block
\* empties the corpus and does not rethrow.
loadMagazineArticlesSwallow(file) ==
    IF file.state = "ok"
    THEN LET loaded == [i \in 1..Len(SelectSeq(file.content, isLoadedArticle)) |->
                           NormalizeArticle(SelectSeq(file.content, isLoadedArticle)[i])]
         IN  [threw |-> FALSE, error |-> "",
              magazineArticles |-> loaded,
              articlesBySlug |-> BuildSlugIndex(loaded, EmptyIndex)]
    ELSE [threw |-> FALSE, error |-> "",
          magazineArticles |-> <<>>,
          articlesBySlug |-> EmptyIndex]

\* What loadMagazineArticles(blogDataPath) leaves in magazineArticles and
\* articlesBySlug, and whether it throws.  file is the state of the file:
\* [state |-> "missing" | "badjson" | "notarray" | "ok", content |-> records]
loadMagazineArticles(file) ==
    IF file.state = "ok"
    THEN LET loaded == [i \in 1..Len(SelectSeq(file.content, isLoadedArticle)) |->
                           NormalizeArticle(SelectSeq(file.content, isLoadedArticle)[i])]
         IN  [threw |-> FALSE, error |-> "",
              magazineArticles |-> loaded,
              articlesBySlug |-> BuildSlugIndex(loaded, EmptyIndex)]
    ELSE [threw |-> TRUE,
          error |-> CASE file.state = "missing" -> "Blog data file not found"
                      [] file.state = "badjson" -> "SyntaxError"
                      [] OTHER -> "TypeError",
          magazineArticles |-> <<>>,
          articlesBySlug |-> EmptyIndex]

-----------------------------------------------------------------------------
(* article-service.js: the query primitives over a corpus `articles`       *)
(* (the module-level magazineArticles at the time of the call).            *)

titleMatch(article, lowerQuery) == includes(toLowerCase(article.title), lowerQuery)

leadMatch(article, lowerQuery) ==
    IsSome(article.lead) /\ includes(toLowerCase(Get(article.lead)), lowerQuery)

\* searchArticles(query, limit = CONFIG.DEFAULT_LIMIT)
searchArticles(articles, query, limit) ==
    LET clampedLimit == clampLimit(DefaultLimit(limit))
        lowerQuery == toLowerCase(query)
        Match(article) ==
            \/ titleMatch(article, lowerQuery)
            \/ leadMatch(article, lowerQuery)
            \/ authorMatches(article, lowerQuery)
    IN  slice(SelectSeq(articles, Match), clampedLimit)

\* searchArticlesByTitle(query, limit = CONFIG.DEFAULT_LIMIT)
searchArticlesByTitle(articles, query, limit) ==
    LET clampedLimit == clampLimit(DefaultLimit(limit))
        lowerQuery == toLowerCase(query)
        Match(article) == titleMatch(article, lowerQuery)
    IN  slice(SelectSeq(articles, Match), clampedLimit)

\* Array.prototype.sort with the comparator
\*   (a, b) => new Date(b.publicationDate).getTime() - new Date(a.publicationDate).getTime()
\* The sort is stable: an element moves in front of another only when the
\* comparator is negative for the pair, i.e. when its date is strictly later.
RECURSIVE InsertByDateDesc(_, _)
InsertByDateDesc(sorted, a) ==
    IF sorted = <<>> THEN <<a>>
    ELSE IF getTime(Head(sorted).publicationDate) >= getTime(a.publicationDate)
         THEN <<Head(sorted)>> \o InsertByDateDesc(Tail(sorted), a)
         ELSE <<a>> \o sorted

RECURSIVE SortByDateDescFrom(_, _)
SortByDateDescFrom(todo, sorted) ==
    IF todo = <<>> THEN sorted
    ELSE SortByDateDescFrom(Tail(todo), InsertByDateDesc(sorted, Head(todo)))

\* A plausible slip: a comparator that is negative for equal dates too
\* (`<=` decided as "b first"), which reverses the load order of ties.
RECURSIVE InsertByDateDescTiesFirst(_, _)
InsertByDateDescTiesFirst(sorted, a) ==
    IF sorted = <<>> THEN <<a>>
    ELSE IF getTime(Head(sorted).publicationDate) > getTime(a.publicationDate)
         THEN <<Head(sorted)>> \o InsertByDateDescTiesFirst(Tail(sorted), a)
         ELSE <<a>> \o sorted

RECURSIVE SortByDateDescTiesFirstFrom(_, _)
SortByDateDescTiesFirstFrom(todo, sorted) ==
    IF todo = <<>> THEN sorted
    ELSE SortByDateDescTiesFirstFrom(Tail(todo), InsertByDateDescTiesFirst(sorted, Head(todo)))

sortByDateDescTiesFirst(s) == SortByDateDescTiesFirstFrom(s, <<>>)

sortByDateDesc(s) == SortByDateDescFrom(s, <<>>)

\* A plausible slip: the limit is applied to the matches in load order and
\* the sort comes after it.
filterArticlesByDateRangeSliceFirst(articles, startDate, endDate, limit) ==
    LET clampedLimit == clampLimit(DefaultLimit(limit))
        AfterStart(article) ==
            getTime(article.publicationDate) >= getTime(Get(startDate))
        BeforeEnd(article) ==
            getTime(article.publicationDate) <= getTime(Get(endDate))
        f1 == IF Truthy(startDate) THEN SelectSeq(articles, AfterStart) ELSE articles
        f2 == IF Truthy(endDate) THEN SelectSeq(f1, BeforeEnd) ELSE f1
    IN  IF Truthy(startDate) /\ ~isValidDate(Get(startDate))
        THEN Thrown("Invalid start date format")
        ELSE IF Truthy(endDate) /\ ~isValidDate(Get(endDate))
             THEN Thrown("Invalid end date format")
             ELSE Returned(sortByDateDesc(slice(f2, clampedLimit)))

\* A plausible slip: the end bound compared with `<`, which leaves out an
\* article dated exactly at the bound.
filterArticlesByDateRangeExclusiveEnd(articles, startDate, endDate, limit) ==
    LET clampedLimit == clampLimit(DefaultLimit(limit))
        AfterStart(article) ==
            getTime(article.publicationDate) >= getTime(Get(startDate))
        BeforeEnd(article) ==
            getTime(article.publicationDate) < getTime(Get(endDate))
        f1 == IF Truthy(startDate) THEN SelectSeq(articles, AfterStart) ELSE articles
        f2 == IF Truthy(endDate) THEN SelectSeq(f1, BeforeEnd) ELSE f1
    IN  IF Truthy(startDate) /\ ~isValidDate(Get(startDate))
        THEN Thrown("Invalid start date format")
        ELSE IF Truthy(endDate) /\ ~isValidDate(Get(endDate))
             THEN Thrown("Invalid end date format")
             ELSE Returned(slice(sortByDateDesc(f2), clampedLimit))

\* filterArticlesByDateRange(startDate, endDate, limit = CONFIG.DEFAULT_LIMIT)
\* startDate and endDate are optional strings; `if (startDate)` is true of a
\* defined, non-empty string.
filterArticlesByDateRange(articles, startDate, endDate, limit) ==
    LET clampedLimit == clampLimit(DefaultLimit(limit))
        AfterStart(article) ==
            getTime(article.publicationDate) >= getTime(Get(startDate))
        BeforeEnd(article) ==
            getTime(article.publicationDate) <= getTime(Get(endDate))
        f1 == IF Truthy(startDate) THEN SelectSeq(articles, AfterStart) ELSE articles
        f2 == IF Truthy(endDate) THEN SelectSeq(f1, BeforeEnd) ELSE f1
    IN  IF Truthy(startDate) /\ ~isValidDate(Get(startDate))
        THEN Thrown("Invalid start date format")
        ELSE IF Truthy(endDate) /\ ~isValidDate(Get(endDate))
             THEN Thrown("Invalid end date format")
             ELSE Returned(slice(sortByDateDesc(f2), clampedLimit))

\* filterArticlesByAuthor(authorName, limit = CONFIG.DEFAULT_LIMIT)
filterArticlesByAuthor(articles, authorName, limit) ==
    LET clampedLimit == clampLimit(DefaultLimit(limit))
        lowerAuthor == toLowerCase(authorName)
        Match(article) == authorMatches(article, lowerAuthor)
    IN  slice(sortByDateDesc(SelectSeq(articles, Match)), clampedLimit)

-----------------------------------------------------------------------------
(* article-service.js: plain-text formatting.  A formatted text is the     *)
(* sequence of its parts; a date is rendered from its time value.          *)

NoArticlesFound == <<"No articles found.">>

\* `${value}` in a template literal: the string itself, and the text
\* "undefined" for a property that is not there
TemplateString(o) == IF IsSome(o) THEN Get(o) ELSE <<"undefined">>

\* formatArticleList(articles)
formatArticleList(articles) ==
    IF Len(articles) = 0
    THEN NoArticlesFound
    ELSE [i \in 1..Len(articles) |->
             [index |-> i,
              title |-> articles[i].title,
              date |-> [style |-> "short", time |-> getTime(articles[i].publicationDate)],
              author |-> getAuthorName(articles[i]),
              link |-> TemplateString(articles[i].link)]]

\* formatArticlePreview(article)
formatArticlePreview(article) ==
    <<[title |-> article.title,
       date |-> [style |-> "long", time |-> getTime(article.publicationDate)],
       author |-> getAuthorName(article),
       link |-> TemplateString(article.link),
       lead |-> IF Truthy(article.lead) THEN Get(article.lead)
                ELSE <<"No summary available.">>]>>

-----------------------------------------------------------------------------
(* widget.js: the widget resolver.                                         *)
(* The file system it looks at is a record                                 *)
(*   prebuilt  : per widget name, the state of ui-sdk/dist/{name}.html     *)
(*   assetsDir : whether uiAssetsDir exists                                *)
(*   files     : the asset files in uiAssetsDir, each [entry, hash, ext];  *)
(*               hash 0 is the un-hashed {entry}.{ext}, a greater hash     *)
(*               sorts later                                               *)
(*   fallback  : the state of uiAssetsDir/fallback-widget.html             *)
(* A file state is "absent", "file", or "unreadable" (existsSync is true   *)
(* and readFileSync throws).                                               *)

WidgetNames == {"article-list", "article-preview"}

\* A plausible slip: the un-hashed file is looked for first.
resolveWidgetAssetPrefersPlain(entryName, extension, files) ==
    LET hashedCandidates ==
            {f \in files : f.entry = entryName /\ f.ext = extension /\ f.hash > 0}
        hashed == CHOOSE f \in hashedCandidates :
                      \A g \in hashedCandidates : g.hash <= f.hash
        fallback == [entry |-> entryName, hash |-> 0, ext |-> extension]
    IN  IF fallback \in files THEN Returned(fallback)
        ELSE IF hashedCandidates # {} THEN Returned(hashed)
        ELSE Thrown("Missing asset")

\* resolveWidgetAsset(entryName, extension, uiAssetsDir)
resolveWidgetAsset(entryName, extension, files) ==
    LET hashedCandidates ==
            {f \in files : f.entry = entryName /\ f.ext = extension /\ f.hash > 0}
        hashed == CHOOSE f \in hashedCandidates :
                      \A g \in hashedCandidates : g.hash <= f.hash
        fallback == [entry |-> entryName, hash |-> 0, ext |-> extension]
    IN  IF hashedCandidates # {} THEN Returned(hashed)
        ELSE IF fallback \in files THEN Returned(fallback)
        ELSE Thrown("Missing asset")

\* escapeForInlineScript / escapeForInlineStyle applied to a file's contents
Inlined(f) == [file |-> f, escaped |-> TRUE]

\* The contents of an asset are a string of characters.
\* source.replace(/pattern/g, replacement): no i flag
RECURSIVE replaceAll(_, _, _)
replaceAll(source, pattern, replacement) ==
    IF source = <<>> THEN <<>>
    ELSE IF Len(source) >= Len(pattern) /\ SubSeq(source, 1, Len(pattern)) = pattern
    THEN replacement
         \o replaceAll(SubSeq(source, Len(pattern) + 1, Len(source)), pattern, replacement)
    ELSE <<Head(source)>> \o replaceAll(Tail(source), pattern, replacement)

\* source.replace(/pattern/gi, replacement), for a pattern in lower case
RECURSIVE replaceAllIgnoreCase(_, _, _)
replaceAllIgnoreCase(source, pattern, replacement) ==
    IF source = <<>> THEN <<>>
    ELSE IF Len(source) >= Len(pattern)
            /\ toLowerCase(SubSeq(source, 1, Len(pattern))) = pattern
    THEN replacement
         \o replaceAllIgnoreCase(SubSeq(source, Len(pattern) + 1, Len(source)),
                                 pattern, replacement)
    ELSE <<Head(source)>> \o replaceAllIgnoreCase(Tail(source), pattern, replacement)

ScriptEndTag == <<"<", "/", "s", "c", "r", "i", "p", "t">>
StyleEndTag == <<"<", "/", "s", "t", "y", "l", "e">>

\* A plausible slip: the regular expression without its i flag.
escapeForInlineScriptCaseSensitive(source) ==
    replaceAll(source, ScriptEndTag, <<"<", "\\", "/", "s", "c", "r", "i", "p", "t">>)

\* escapeForInlineScript: source.replace(/<\/script/gi, '<\\/script')
escapeForInlineScript(source) ==
    replaceAllIgnoreCase(source, ScriptEndTag,
                         <<"<", "\\", "/", "s", "c", "r", "i", "p", "t">>)

\* escapeForInlineStyle: source.replace(/<\/style/gi, '<\\/style')
escapeForInlineStyle(source) ==
    replaceAllIgnoreCase(source, StyleEndTag, <<"<", "\\", "/", "s", "t", "y", "l", "e">>)

\* the template literal of buildWidgetHtml; the opening tags and the text
\* between the elements are one token each
InlineDocument(rootId, safeCss, safeJs) ==
    <<"<!doctype html><html><head>", "<style>">>
    \o safeCss \o StyleEndTag
    \o <<">", "</head><body>", "<div id=", rootId, "></div>", "<script type=module>">>
    \o safeJs \o ScriptEndTag
    \o <<">", "</body></html>">>

Html(kind, entryName, js, css) ==
    [kind |-> kind, entry |-> entryName, js |-> js, css |-> css]

\* the catch block of buildWidgetHtml
buildWidgetHtmlCatch(entryName, wfs) ==
    CASE wfs.assetsDir /\ wfs.fallback = "file" ->
            Returned(Html("fallback", entryName, None, None))
      [] wfs.assetsDir /\ wfs.fallback = "unreadable" ->
            Thrown("readFileSync fallback-widget.html")
      [] OTHER -> Returned(Html("placeholder", entryName, None, None))

\* buildWidgetHtml(entryName, rootId, uiAssetsDir)
buildWidgetHtml(entryName, wfs) ==
    LET js == resolveWidgetAsset(entryName, ".js", wfs.files)
        css == resolveWidgetAsset(entryName, ".css", wfs.files)
    IN  CASE wfs.prebuilt[entryName] = "file" ->
                Returned(Html("prebuilt", entryName, None, None))
          [] wfs.prebuilt[entryName] = "unreadable" ->
                buildWidgetHtmlCatch(entryName, wfs)
          [] ~wfs.assetsDir -> buildWidgetHtmlCatch(entryName, wfs)
          [] js.threw \/ css.threw -> buildWidgetHtmlCatch(entryName, wfs)
          [] OTHER ->
                Returned(Html("inlined", entryName,
                              Some(Inlined(js.value)), Some(Inlined(css.value))))

\* the descriptor both initialize*Widget functions build, or None (null)
\* when buildWidgetHtml throws
WidgetDescriptor(entryName, invoking, invoked, wfs) ==
    LET html == buildWidgetHtml(entryName, wfs)
    IN  IF html.threw THEN None
        ELSE Some([templateUri |-> <<"ui://widget/", entryName, ".html">>,
                   invoking |-> invoking,
                   invoked |-> invoked,
                   html |-> html.value])

\* initializeArticleListWidget(uiAssetsDir)
initializeArticleListWidget(wfs) ==
    WidgetDescriptor("article-list", "Curating magazine stories",
                     "Article list ready", wfs)

\* initializeArticlePreviewWidget(uiAssetsDir)
initializeArticlePreviewWidget(wfs) ==
    WidgetDescriptor("article-preview", "Loading article preview",
                     "Article preview ready", wfs)

\* widgetDescriptorMeta(widget)
widgetDescriptorMeta(widget) ==
    [outputTemplate |-> widget.templateUri, invoking |-> widget.invoking,
     invoked |-> widget.invoked, widgetAccessible |-> TRUE]

\* widgetInvocationMeta(widget)
widgetInvocationMeta(widget) ==
    [invoking |-> widget.invoking, invoked |-> widget.invoked]

\* A plausible slip: an article without a link is mapped to null, and the
\* payload builder drops it.
mapMagazineArticleToWidgetArticleNeedsLink(article) ==
    LET slug == trim(article.slug)
        publicationDate == trim(article.publicationDate)
    IN  IF ~IsSome(DateParse(publicationDate)) \/ ~IsSome(article.link) THEN None
        ELSE Some([slug |-> slug,
                   title |-> trim(article.title),
                   lead |-> IF IsSome(article.lead) THEN trim(Get(article.lead)) ELSE <<>>,
                   author |-> getAuthorName(article),
                   publicationDate |-> [style |-> "iso", time |-> getTime(publicationDate)],
                   url |-> trim(Get(article.link))])

\* mapMagazineArticleToWidgetArticle(article): None (null) when the date
\* does not parse
mapMagazineArticleToWidgetArticle(article) ==
    LET slug == trim(article.slug)
        publicationDate == trim(article.publicationDate)
    IN  IF ~IsSome(DateParse(publicationDate)) THEN None
        ELSE Some([slug |-> slug,
                   title |-> trim(article.title),
                   lead |-> IF IsSome(article.lead) THEN trim(Get(article.lead)) ELSE <<>>,
                   author |-> getAuthorName(article),
                   publicationDate |-> [style |-> "iso", time |-> getTime(publicationDate)],
                   url |-> IF IsSome(article.link) /\ trim(Get(article.link)) # <<>>
                           THEN trim(Get(article.link))
                           ELSE <<"https://www.unic.com/en/magazine/">> \o slug])

\* createSearchWidgetPayload(query, limit, results)
createSearchWidgetPayload(query, limit, results) ==
    LET mapped == [i \in 1..Len(results) |-> mapMagazineArticleToWidgetArticle(results[i])]
        kept == SelectSeq(mapped, IsSome)
        widgetArticles == [i \in 1..Len(kept) |-> Get(kept[i])]
    IN  [heading |-> query,
         articles |-> widgetArticles,
         summary |-> [found |-> Len(results), limit |-> limit],
         total |-> Len(widgetArticles),
         context |-> [query |-> query, limit |-> limit,
                      totalMatches |-> Len(results),
                      widgetArticles |-> Len(widgetArticles)]]

\* createArticlePreviewWidgetPayload(article)
createArticlePreviewWidgetPayload(article) ==
    [heading |-> "Article Preview",
     article |-> mapMagazineArticleToWidgetArticle(article)]

-----------------------------------------------------------------------------
(* config.js and server.js: one-time initialization.                       *)
(* The module-level state is handled as a record                           *)
(*   [widgetsInitialized, articleListWidget, articlePreviewWidget,         *)
(*    magazineArticles, articlesBySlug].                                   *)

\* validateEnvironment(): throws when the corpus file does not exist
validateEnvironment(file) ==
    IF file.state = "missing"
    THEN Thrown("Required blog data file not found")
    ELSE Returned(None)

\* initializeApp(): what it returns or throws, what it leaves in the
\* article service's module state, and which of its steps ran
initializeApp(st, file, wfs) ==
    LET env == validateEnvironment(file)
        load == loadMagazineArticles(file)
    IN  IF env.threw
        THEN [threw |-> TRUE, error |-> env.error, state |-> st,
              articleListWidget |-> None, articlePreviewWidget |-> None,
              loadCalls |-> 0, resolved |-> {}]
        ELSE IF load.threw
        THEN [threw |-> TRUE, error |-> load.error,
              state |-> [st EXCEPT !.magazineArticles = load.magazineArticles,
                                   !.articlesBySlug = load.articlesBySlug],
              articleListWidget |-> None, articlePreviewWidget |-> None,
              loadCalls |-> 1, resolved |-> {}]
        ELSE [threw |-> FALSE, error |-> "",
              state |-> [st EXCEPT !.magazineArticles = load.magazineArticles,
                                   !.articlesBySlug = load.articlesBySlug],
              articleListWidget |-> initializeArticleListWidget(wfs),
              articlePreviewWidget |-> initializeArticlePreviewWidget(wfs),
              loadCalls |-> 1, resolved |-> WidgetNames]

\* A plausible slip: no ready-once guard, every caller initializes again.
ensureWidgetsInitializedUnguarded(st, file, wfs) ==
    LET app == initializeApp(st, file, wfs)
    IN  IF app.threw
        THEN [threw |-> TRUE, error |-> app.error, state |-> app.state,
              ran |-> TRUE, loadCalls |-> app.loadCalls, resolved |-> app.resolved]
        ELSE [threw |-> FALSE, error |-> "",
              state |-> [app.state EXCEPT
                            !.articleListWidget = app.articleListWidget,
                            !.articlePreviewWidget = app.articlePreviewWidget,
                            !.widgetsInitialized = TRUE],
              ran |-> TRUE, loadCalls |-> app.loadCalls, resolved |-> app.resolved]

\* ensureWidgetsInitialized(): `ran` tells whether the body after the guard
\* was executed
ensureWidgetsInitialized(st, file, wfs) ==
    LET app == initializeApp(st, file, wfs)
    IN  IF st.widgetsInitialized
        THEN [threw |-> FALSE, error |-> "", state |-> st, ran |-> FALSE,
              loadCalls |-> 0, resolved |-> {}]
        ELSE IF app.threw
        THEN [threw |-> TRUE, error |-> app.error, state |-> app.state,
              ran |-> TRUE, loadCalls |-> app.loadCalls, resolved |-> app.resolved]
        ELSE [threw |-> FALSE, error |-> "",
              state |-> [app.state EXCEPT
                            !.articleListWidget = app.articleListWidget,
                            !.articlePreviewWidget = app.articlePreviewWidget,
                            !.widgetsInitialized = TRUE],
              ran |-> TRUE, loadCalls |-> app.loadCalls, resolved |-> app.resolved]

-----------------------------------------------------------------------------
(* server.js: the tool registry *)

NoSession ==
    [created |-> FALSE, resources |-> {}, searchMeta |-> None, previewMeta |-> None,
     connected |-> FALSE, handleRequestCalls |-> 0,
     transportCloseCalls |-> 0, serverCloseCalls |-> 0]

ToolMeta(widget) ==
    IF IsSome(widget)
    THEN Some([outputTemplate |-> Get(widget).templateUri,
               invoking |-> Get(widget).invoking,
               invoked |-> Get(widget).invoked])
    ELSE None

\* createBlogServer() together with `new StreamableHTTPServerTransport`:
\* the session a request owns
createBlogServer(st) ==
    [NoSession EXCEPT
        !.created = TRUE,
        !.resources =
            (IF IsSome(st.articleListWidget) THEN {"article-list-widget"} ELSE {})
            \cup (IF IsSome(st.articlePreviewWidget) THEN {"article-preview-widget"} ELSE {}),
        !.searchMeta = ToolMeta(st.articleListWidget),
        !.previewMeta = ToolMeta(st.articlePreviewWidget)]

ToolResult(kind, count, formatted, structuredContent, meta) ==
    [text |-> [kind |-> kind, count |-> count, formatted |-> formatted],
     structuredContent |-> structuredContent,
     meta |-> meta]

\* A plausible slip: the widget branch keeps the formatted list in its text.
searchArticlesToolBoth(st, query, limit) ==
    LET results == searchArticles(st.magazineArticles, query, DefaultLimit(limit))
    IN  IF IsSome(st.articleListWidget)
        THEN ToolResult("ack", Len(results), Some(formatArticleList(results)),
                        Some(createSearchWidgetPayload(query, DefaultLimit(limit), results)),
                        Some(widgetInvocationMeta(Get(st.articleListWidget))))
        ELSE ToolResult("full", Len(results), Some(formatArticleList(results)),
                        None, None)

\* the search_articles handler: async ({ query, limit = CONFIG.DEFAULT_LIMIT })
searchArticlesTool(st, query, limit) ==
    LET results == searchArticles(st.magazineArticles, query, DefaultLimit(limit))
    IN  IF IsSome(st.articleListWidget)
        THEN ToolResult("ack", Len(results), None,
                        Some(createSearchWidgetPayload(query, DefaultLimit(limit), results)),
                        Some(widgetInvocationMeta(Get(st.articleListWidget))))
        ELSE ToolResult("full", Len(results), Some(formatArticleList(results)),
                        None, None)

\* the get_article_preview handler: async ({ title })
getArticlePreviewTool(st, title) ==
    LET results == searchArticlesByTitle(st.magazineArticles, title, Some(1))
    IN  IF Len(results) = 0
        THEN ToolResult("notFound", 0, None, None, None)
        ELSE IF IsSome(st.articlePreviewWidget)
        THEN ToolResult("ack", 1, None,
                        Some(createArticlePreviewWidgetPayload(results[1])),
                        Some(widgetInvocationMeta(Get(st.articlePreviewWidget))))
        ELSE ToolResult("full", 1, Some(formatArticlePreview(results[1])), None, None)

\* a tools/call request dispatched to the handler of the named tool
callTool(st, call) ==
    IF call.tool = "search_articles"
    THEN searchArticlesTool(st, call.query, call.limit)
    ELSE getArticlePreviewTool(st, call.query)

-----------------------------------------------------------------------------
(* cors-utils.js.  A header set is a function from header names to values; *)
(* an origin is one token of a string, "," and " " are tokens of their own. *)

\* A plausible slip: the environment is compared with the wrong word.
isDevelopmentUnlessProd(e) == e.NODE_ENV # Some(<<"prod">>)

\* const isDevelopment = process.env.NODE_ENV !== 'production'
isDevelopment(e) == e.NODE_ENV # Some(<<"production">>)

DEFAULT_ALLOWED_ORIGINS == <<<<"https://chatgpt.com">>, <<"https://chat.openai.com">>>>

\* String.prototype.split(sep)
RECURSIVE split(_, _)
split(s, sep) ==
    IF \A i \in 1..Len(s) : s[i] # sep
    THEN <<s>>
    ELSE LET k == CHOOSE i \in 1..Len(s) : s[i] = sep /\ \A j \in 1..(i - 1) : s[j] # sep
         IN  <<SubSeq(s, 1, k - 1)>> \o split(SubSeq(s, k + 1, Len(s)), sep)

\* Array.prototype.includes
arrayIncludes(list, x) == \E i \in 1..Len(list) : list[i] = x

\* resolveAllowedOrigin(requestOrigin) in the process environment e
resolveAllowedOrigin(e, requestOrigin) ==
    LET allowedOriginEnv ==
            IF IsSome(e.ALLOWED_ORIGIN) THEN Some(trim(Get(e.ALLOWED_ORIGIN))) ELSE None
        parts == split(Get(allowedOriginEnv), ",")
        trimmed == [i \in 1..Len(parts) |-> trim(parts[i])]
        NonEmpty(origin) == Len(origin) > 0
        allowedOrigins == SelectSeq(trimmed, NonEmpty)
    IN  IF isDevelopment(e)
        THEN IF Truthy(requestOrigin) THEN Get(requestOrigin) ELSE <<"*">>
        ELSE IF Truthy(allowedOriginEnv)
        THEN IF Truthy(requestOrigin) /\ arrayIncludes(allowedOrigins, Get(requestOrigin))
             THEN Get(requestOrigin)
             ELSE IF Len(allowedOrigins) > 0
                  THEN allowedOrigins[1]
                  ELSE DEFAULT_ALLOWED_ORIGINS[1]
        ELSE IF Truthy(requestOrigin) /\ arrayIncludes(DEFAULT_ALLOWED_ORIGINS, Get(requestOrigin))
             THEN Get(requestOrigin)
             ELSE DEFAULT_ALLOWED_ORIGINS[1]

\* object spread {...a, ...b}: b's properties replace a's
Spread(a, b) ==
    [k \in (DOMAIN a) \cup (DOMAIN b) |-> IF k \in DOMAIN b THEN b[k] ELSE a[k]]

NoHeaders == [k \in {} |-> <<>>]

\* getCorsHeaders(requestOrigin, additionalHeaders = {})
getCorsHeaders(e, requestOrigin, additionalHeaders) ==
    LET allowedOrigin == resolveAllowedOrigin(e, requestOrigin)
        origin == [k \in {"Access-Control-Allow-Origin"} |-> allowedOrigin]
        credentials ==
            IF allowedOrigin = <<"*">>
            THEN NoHeaders
            ELSE [k \in {"Access-Control-Allow-Credentials"} |-> <<"true">>]
        vary == [k \in {"Vary"} |-> <<"Origin">>]
    IN  Spread(Spread(Spread(origin, credentials), vary), additionalHeaders)

\* The value of a request header: absent (undefined), one string, or an
\* array of strings.
AbsentHeader == [kind |-> "absent"]
StringHeader(s) == [kind |-> "string", value |-> s]
ArrayHeader(a) == [kind |-> "array", value |-> a]

\* Array.prototype.join
RECURSIVE join(_, _)
join(a, separator) ==
    IF a = <<>> THEN <<>>
    ELSE IF Len(a) = 1 THEN a[1]
    ELSE a[1] \o separator \o join(Tail(a), separator)

\* A plausible slip: only a missing header is repaired.
ensureStreamableAcceptOnlyWhenMissing(rawAccept) ==
    IF rawAccept.kind = "absent" THEN StringHeader(<<"text/event-stream">>) ELSE rawAccept

\* ensureStreamableAccept(req): the value of req.headers.accept afterwards
ensureStreamableAccept(rawAccept) ==
    LET accept == IF rawAccept.kind = "array"
                  THEN StringHeader(join(rawAccept.value, <<",">>))
                  ELSE rawAccept
        normalized == toLowerCase(accept.value)
    IN  IF accept.kind = "absent" \/ accept.value = <<>>
        THEN StringHeader(<<"text/event-stream">>)
        ELSE IF includes(normalized, <<"text/event-stream">>)
        THEN rawAccept
        ELSE IF trim(normalized) = <<"*/*">>
        THEN StringHeader(<<"text/event-stream">>)
        ELSE StringHeader(accept.value \o <<",", " ", "text/event-stream">>)

-----------------------------------------------------------------------------
(* Bounds of the model and the inputs drawn from them. *)

MaxCorpusLen == 3     \* records in the corpus file
LimitSlack == 2       \* how far requested limits go beyond 0 and MAX_LIMIT

UrlA == <<"https://www.unic.com/en/magazine/", "a">>

\* raw records of the corpus file
RawIntro ==
    [slug |-> Some(<<"a">>),
     title |-> Some(<<"I", "n", "t", "r", "o", " ", "t", "o", " ", "X">>),
     publicationDate |-> Some(<<"2024-01-01">>),
     lead |-> None,
     author |-> AuthorObject(Some(<<"A", "n", "n">>)),
     link |-> Some(UrlA)]
RawContinued ==
    [slug |-> Some(<<"b">>),
     title |-> Some(<<"X", " ", "c", "o", "n", "t", "i", "n", "u", "e", "d">>),
     publicationDate |-> Some(<<"2024-02-01">>),
     lead |-> Some(<<"m", "o", "r", "e">>),
     author |-> AuthorString(<<"B", "o", "b">>),
     link |-> None]
RawPadded ==
    [slug |-> Some(<<" ", "c", " ">>),
     title |-> Some(<<" ", "N", "e", "w", "s">>),
     publicationDate |-> Some(<<" ", "2024-02-01">>),
     lead |-> Some(<<"b", "y", " ", "x">>),
     author |-> NoAuthor,
     link |-> None]
RawDuplicate ==
    [slug |-> Some(<<"a">>),
     title |-> Some(<<"A", "n", "n", "e", "x">>),
     publicationDate |-> Some(<<"2024-03-01">>),
     lead |-> None,
     author |-> AuthorObject(None),
     link |-> None]
RawBlankTitle ==
    [slug |-> Some(<<"d">>),
     title |-> Some(<<" ", " ">>),
     publicationDate |-> Some(<<"2024-01-15">>),
     lead |-> None,
     author |-> NoAuthor,
     link |-> None]
RawBadDate ==
    [slug |-> Some(<<"e">>),
     title |-> Some(<<"X">>),
     publicationDate |-> Some(<<"not-a-date">>),
     lead |-> None,
     author |-> AuthorString(<<"B", "o", "b">>),
     link |-> None]

RawPool == {RawIntro, RawContinued, RawPadded, RawDuplicate, RawBlankTitle, RawBadDate}

\* contents of the corpus file: arrays of at most MaxCorpusLen raw records
RawContents == UNION {[1..n -> RawPool] : n \in 0..MaxCorpusLen}

CorpusFiles ==
    {[state |-> "ok", content |-> c] : c \in RawContents}
    \cup {[state |-> st, content |-> <<>>] : st \in {"missing", "badjson", "notarray"}}

\* requested limits: every integer from -LimitSlack to MAX_LIMIT + LimitSlack
AllLimits ==
    {None} \cup {Some(n) : n \in (0 - LimitSlack)..(MAX_LIMIT + LimitSlack)}

\* the limits given to the queries: those around the floor, around the
\* size of the corpus and around the ceiling, and the default
QueryLimits ==
    {None, Some(DEFAULT_LIMIT)}
    \cup {Some(n) : n \in ((0 - LimitSlack)..(MaxCorpusLen + 1))
                          \cup ((MAX_LIMIT - 1)..(MAX_LIMIT + LimitSlack))}

\* date bounds given to filterArticlesByDateRange: undefined, the empty
\* string, a string that does not parse, and dates
DateBounds ==
    {None, Some(<<>>), Some(<<"not-a-date">>), Some(<<"2024-01-15">>),
     Some(<<"2024-02-01">>)}

Queries == {<<"x">>, <<"X", " ">>, <<"b", "o">>, <<"t", "e", "a", "m">>, <<"z">>}

MaxRequests == 2      \* requests the process receives
MaxFsChanges == 1     \* changes of the corpus file during the process's life

Requests == 1..MaxRequests

\* corpus files of the server specification
ServedContent == <<RawIntro, RawContinued, RawBlankTitle>>
ServerCorpusFiles ==
    {[state |-> "ok", content |-> ServedContent],
     [state |-> "missing", content |-> <<>>],
     [state |-> "badjson", content |-> <<>>]}

Asset(entryName, hash, extension) == [entry |-> entryName, hash |-> hash, ext |-> extension]

\* file systems of the widget resolver in the server specification
FsNothing ==
    [prebuilt |-> [n \in WidgetNames |-> "absent"], assetsDir |-> FALSE,
     files |-> {}, fallback |-> "absent"]
FsPrebuilt ==
    [prebuilt |-> [n \in WidgetNames |-> "file"], assetsDir |-> FALSE,
     files |-> {}, fallback |-> "absent"]
FsAssets ==
    [prebuilt |-> [n \in WidgetNames |-> "absent"], assetsDir |-> TRUE,
     files |-> {Asset("article-list", 1, ".js"), Asset("article-list", 2, ".js"),
                Asset("article-list", 0, ".css"), Asset("article-preview", 1, ".js")},
     fallback |-> "file"]
FsBrokenFallback ==
    [prebuilt |-> [n \in WidgetNames |-> IF n = "article-list" THEN "unreadable" ELSE "absent"],
     assetsDir |-> TRUE, files |-> {}, fallback |-> "unreadable"]
FsListOnly ==
    [prebuilt |-> [n \in WidgetNames |-> IF n = "article-list" THEN "file" ELSE "absent"],
     assetsDir |-> TRUE, files |-> {}, fallback |-> "unreadable"]

ServerWidgetFs == {FsNothing, FsPrebuilt, FsAssets, FsBrokenFallback, FsListOnly}

\* the environment of the server specifications
ProductionEnv == [NODE_ENV |-> Some(<<"production">>), ALLOWED_ORIGIN |-> None]

\* what a request is: its method and whether it carries mcp-session-id
RequestKinds ==
    {[method |-> "GET", hasSession |-> FALSE],
     [method |-> "GET", hasSession |-> TRUE],
     [method |-> "POST", hasSession |-> FALSE],
     [method |-> "DELETE", hasSession |-> TRUE]}

\* the Origin and Access-Control-Request-Headers of an OPTIONS request
PreflightOrigins == {None, Some(<<"https://evil.example">>)}
RequestedHeaders == {None, Some(<<>>), Some(<<"x-custom">>)}

\* the tools/call bodies a POST carries
ToolCalls ==
    {[tool |-> "search_articles", query |-> <<"x">>, limit |-> None],
     [tool |-> "search_articles", query |-> <<"z">>, limit |-> Some(1)],
     [tool |-> "get_article_preview", query |-> <<"x">>, limit |-> None],
     [tool |-> "get_article_preview", query |-> <<"z">>, limit |-> None]}

-----------------------------------------------------------------------------
(* server.js handleMcpRequest and its callers *)

NoRequest ==
    [method |-> "", hasSession |-> FALSE, fileSeen |-> "", initializedBefore |-> FALSE,
     requestedHeaders |-> None]
NoCall == [tool |-> "", query |-> <<>>, limit |-> None]
NoResponse ==
    [status |-> 0, kind |-> "none", message |-> "", call |-> NoCall,
     result |-> None, closedAtAnswer |-> {}, headers |-> NoHeaders]

HealthResponse == [NoResponse EXCEPT !.status = 200, !.kind = "health"]

\* server.js catch block: res.writeHead(500).end('Internal server error')
InternalError == [NoResponse EXCEPT !.status = 500, !.kind = "error"]

\* api/mcp.js catch block: res.status(500).json({error, message: error.message})
ApiError(message) ==
    [NoResponse EXCEPT !.status = 500, !.kind = "errorJson", !.message = message]

\* A plausible slip: the preflight answer of the SSE server
\* (unic-server/src/server.ts), which knows neither DELETE nor the session
\* header.
preflightHeadersOfSseServer(requestedHeaders) ==
    [k \in {"Access-Control-Allow-Methods", "Access-Control-Allow-Headers"} |->
        IF k = "Access-Control-Allow-Methods"
        THEN <<"GET", ", ", "POST", ", ", "OPTIONS">>
        ELSE <<"content-type">>]

\* the additional headers of the preflight answer, for the value of the
\* request's access-control-request-headers
preflightHeaders(requestedHeaders) ==
    [k \in {"Access-Control-Allow-Methods", "Access-Control-Allow-Headers",
             "Access-Control-Expose-Headers"} |->
        CASE k = "Access-Control-Allow-Methods" ->
                <<"POST", ", ", "GET", ", ", "DELETE", ", ", "OPTIONS">>
          [] k = "Access-Control-Allow-Headers" ->
                IF Truthy(requestedHeaders)
                THEN Get(requestedHeaders)
                ELSE <<"content-type", ", ", "mcp-session-id">>
          [] OTHER -> <<"Mcp-Session-Id">>]

\* the answer to an OPTIONS request: res.writeHead(204, {...}) / res.status(204)
PreflightResponse(e, origin, requestedHeaders) ==
    [NoResponse EXCEPT !.status = 204, !.kind = "preflight",
                       !.headers = getCorsHeaders(e, origin, preflightHeaders(requestedHeaders))]

\* the requests whose response has closed
ClosedNow == {q \in DOMAIN resClosed : resClosed[q]}

\* A plausible slip: the session marker is tested the wrong way round.
isHealthCheckInverted(method, hasSession) == method = "GET" /\ hasSession

\* req.method === 'GET' && !req.headers['mcp-session-id']
isHealthCheck(method, hasSession) == method = "GET" /\ ~hasSession

\* A plausible slip: the listener closes the transport and forgets the server.
onResponseCloseTransportOnly(owned, r) ==
    [owned EXCEPT ![r].transportCloseCalls = @ + 1]

\* A plausible slip: transport and server kept at module level, so a close
\* event closes whatever sessions exist.
onResponseCloseShared(owned, r) ==
    [q \in DOMAIN owned |->
        IF owned[q].created
        THEN [owned[q] EXCEPT !.transportCloseCalls = @ + 1,
                                 !.serverCloseCalls = @ + 1]
        ELSE owned[q]]

\* res.on('close', () => { transport.close(); server.close(); })
onResponseClose(owned, r) ==
    [owned EXCEPT ![r].transportCloseCalls = @ + 1,
                     ![r].serverCloseCalls = @ + 1]

Module ==
    [widgetsInitialized |-> widgetsInitialized,
     articleListWidget |-> articleListWidget,
     articlePreviewWidget |-> articlePreviewWidget,
     magazineArticles |-> magazineArticles,
     articlesBySlug |-> articlesBySlug]

SetModule(st) ==
    /\ widgetsInitialized' = st.widgetsInitialized
    /\ articleListWidget' = st.articleListWidget
    /\ articlePreviewWidget' = st.articlePreviewWidget
    /\ magazineArticles' = st.magazineArticles
    /\ articlesBySlug' = st.articlesBySlug

moduleVars == <<widgetsInitialized, articleListWidget, articlePreviewWidget,
                magazineArticles, articlesBySlug>>
envVars == <<mode, corpusFile, fsChangesLeft, widgetFs, processEnv>>
requestVars == <<req, pc, res, session, resClosed>>

\* the history kept of one call of ensureWidgetsInitialized by `who`
Record(e, who) ==
    [hist EXCEPT
        !.initRuns = @ + (IF e.ran THEN 1 ELSE 0),
        !.initBy = IF e.ran THEN @ \cup {who} ELSE @,
        !.loadCalls = @ + e.loadCalls,
        !.resolutions = [n \in WidgetNames |-> @[n] + (IF n \in e.resolved THEN 1 ELSE 0)],
        !.loadedFrom = IF e.ran /\ ~e.threw THEN Some(corpusFile) ELSE @]

\* startServer(): ensureWidgetsInitialized() before the HTTP server listens;
\* an exception rejects startServer's promise and the process never serves
StartServer ==
    /\ mode = "local"
    /\ procState = "starting"
    /\ LET e == ensureWidgetsInitialized(Module, corpusFile, widgetFs)
       IN  /\ SetModule(e.state)
           /\ procState' = IF e.threw THEN "crashed" ELSE "serving"
           /\ hist' = Record(e, 0)
    /\ UNCHANGED <<envVars, requestVars, qcall, sessions>>

\* handleMcpRequest up to its first await, for a request of kind k.  In the
\* serverless deployment an exception of ensureWidgetsInitialized rejects
\* handleMcpRequest and is answered by the catch block of api/mcp.js.
Begin(r, k) ==
    /\ procState = "serving"
    /\ pc[r] = "none"
    /\ IF r = 1 THEN TRUE ELSE pc[r - 1] # "none"
    /\ req' = [req EXCEPT ![r] = [method |-> k.method, hasSession |-> k.hasSession,
                                  fileSeen |-> corpusFile.state,
                                  initializedBefore |-> widgetsInitialized,
                                  requestedHeaders |-> None]]
    /\ IF isHealthCheck(k.method, k.hasSession)
       THEN /\ res' = [res EXCEPT ![r] = HealthResponse]
            /\ pc' = [pc EXCEPT ![r] = "done"]
            /\ UNCHANGED <<moduleVars, session, hist>>
       ELSE LET e == ensureWidgetsInitialized(Module, corpusFile, widgetFs)
            IN  /\ SetModule(e.state)
                /\ hist' = Record(e, r)
                /\ IF e.threw
                   THEN /\ res' = [res EXCEPT ![r] = ApiError(e.error)]
                        /\ pc' = [pc EXCEPT ![r] = "done"]
                        /\ UNCHANGED session
                   ELSE /\ session' = [session EXCEPT ![r] = createBlogServer(e.state)]
                        /\ pc' = [pc EXCEPT ![r] = "connecting"]
                        /\ UNCHANGED res
    /\ UNCHANGED <<envVars, procState, resClosed, qcall, sessions>>

\* An OPTIONS request to the protocol path: answered by the request listener
\* of startServer, or by the serverless handler, before handleMcpRequest.
Preflight(r, origin, requestedHeaders) ==
    /\ procState = "serving"
    /\ pc[r] = "none"
    /\ IF r = 1 THEN TRUE ELSE pc[r - 1] # "none"
    /\ req' = [req EXCEPT ![r] = [method |-> "OPTIONS", hasSession |-> FALSE,
                                  fileSeen |-> corpusFile.state,
                                  initializedBefore |-> widgetsInitialized,
                                  requestedHeaders |-> requestedHeaders]]
    /\ res' = [res EXCEPT ![r] = PreflightResponse(processEnv, origin, requestedHeaders)]
    /\ pc' = [pc EXCEPT ![r] = "done"]
    /\ UNCHANGED <<envVars, procState, moduleVars, session, resClosed, hist, qcall, sessions>>

\* await server.connect(transport) resolves; transport.handleRequest is called
ConnectOk(r) ==
    /\ pc[r] = "connecting"
    /\ session' = [session EXCEPT ![r].connected = TRUE,
                                  ![r].handleRequestCalls = @ + 1]
    /\ pc' = [pc EXCEPT ![r] = "handling"]
    /\ UNCHANGED <<envVars, procState, moduleVars, req, res, resClosed, hist, qcall, sessions>>

\* await server.connect(transport) rejects: the catch block answers 500
ConnectThrows(r) ==
    /\ pc[r] = "connecting"
    /\ res' = [res EXCEPT ![r] = InternalError]
    /\ pc' = [pc EXCEPT ![r] = "done"]
    /\ UNCHANGED <<envVars, procState, moduleVars, req, session, resClosed, hist, qcall, sessions>>

\* await transport.handleRequest(req, res, req.body) resolves after a
\* tools/call was dispatched to its handler
HandleToolCall(r, call) ==
    /\ pc[r] = "handling"
    /\ req[r].method = "POST"
    /\ res' = [res EXCEPT ![r] =
                  [NoResponse EXCEPT !.status = 200, !.kind = "tool", !.call = call,
                                     !.result = Some(callTool(Module, call)),
                                     !.closedAtAnswer = ClosedNow]]
    /\ pc' = [pc EXCEPT ![r] = "done"]
    /\ UNCHANGED <<envVars, procState, moduleVars, req, session, resClosed, hist, qcall, sessions>>

\* await transport.handleRequest resolves, the transport having answered
\* itself (a stream opened, a session ended, a malformed body refused)
HandleByTransport(r) ==
    /\ pc[r] = "handling"
    /\ res' = [res EXCEPT ![r] = [NoResponse EXCEPT !.status = 200, !.kind = "transport",
                                                    !.closedAtAnswer = ClosedNow]]
    /\ pc' = [pc EXCEPT ![r] = "done"]
    /\ UNCHANGED <<envVars, procState, moduleVars, req, session, resClosed, hist, qcall, sessions>>

\* await transport.handleRequest rejects: the catch block answers 500
\* unless the headers were already sent
HandleThrows(r, headersSent) ==
    /\ pc[r] = "handling"
    /\ res' = [res EXCEPT ![r] =
                  IF headersSent
                  THEN [NoResponse EXCEPT !.status = 200, !.kind = "transport",
                                          !.closedAtAnswer = ClosedNow]
                  ELSE InternalError]
    /\ pc' = [pc EXCEPT ![r] = "done"]
    /\ UNCHANGED <<envVars, procState, moduleVars, req, session, resClosed, hist, qcall, sessions>>

\* the response's 'close' event: the response ended or the client went away
ResponseClose(r) ==
    /\ session[r].created
    /\ ~resClosed[r]
    /\ resClosed' = [resClosed EXCEPT ![r] = TRUE]
    /\ session' = onResponseClose(session, r)
    /\ UNCHANGED <<envVars, procState, moduleVars, req, pc, res, hist, qcall, sessions>>

\* the file at BLOG_DATA_PATH is replaced, removed or damaged
ChangeCorpusFile(file) ==
    /\ fsChangesLeft > 0
    /\ file # corpusFile
    /\ corpusFile' = file
    /\ fsChangesLeft' = fsChangesLeft - 1
    /\ UNCHANGED <<mode, widgetFs, processEnv, procState, moduleVars, requestVars, hist, qcall, sessions>>

NoHistory ==
    [initRuns |-> 0, initBy |-> {}, loadCalls |-> 0,
     resolutions |-> [n \in WidgetNames |-> 0], loadedFrom |-> None]

InitModule ==
    /\ widgetsInitialized = FALSE
    /\ articleListWidget = None
    /\ articlePreviewWidget = None
    /\ magazineArticles = <<>>
    /\ articlesBySlug = EmptyIndex

InitRequests ==
    /\ req = [r \in Requests |-> NoRequest]
    /\ pc = [r \in Requests |-> "none"]
    /\ res = [r \in Requests |-> NoResponse]
    /\ session = [r \in Requests |-> NoSession]
    /\ resClosed = [r \in Requests |-> FALSE]

NoQueryCall == [op |-> "none"]

\* const sessions = new Map()
NoSessions == [id \in {} |-> <<>>]

Init ==
    /\ mode \in {"serverless", "local"}
    /\ procState = IF mode = "local" THEN "starting" ELSE "serving"
    /\ corpusFile \in ServerCorpusFiles
    /\ fsChangesLeft = MaxFsChanges
    /\ widgetFs \in ServerWidgetFs
    /\ processEnv = ProductionEnv
    /\ InitModule
    /\ InitRequests
    /\ hist = NoHistory
    /\ qcall = NoQueryCall
    /\ sessions = NoSessions

Next ==
    \/ StartServer
    \/ \E r \in Requests, k \in RequestKinds : Begin(r, k)
    \/ \E r \in Requests, origin \in PreflightOrigins, requestedHeaders \in RequestedHeaders :
           Preflight(r, origin, requestedHeaders)
    \/ \E r \in Requests : ConnectOk(r)
    \/ \E r \in Requests : ConnectThrows(r)
    \/ \E r \in Requests, call \in ToolCalls : HandleToolCall(r, call)
    \/ \E r \in Requests : HandleByTransport(r)
    \/ \E r \in Requests, headersSent \in BOOLEAN : HandleThrows(r, headersSent)
    \/ \E r \in Requests : ResponseClose(r)
    \/ \E file \in ServerCorpusFiles : ChangeCorpusFile(file)

Spec == Init /\ [][Next]_vars

-----------------------------------------------------------------------------
(* The article service on its own: the corpus file is loaded, then one     *)
(* query primitive is called.  Every call records its arguments, the       *)
(* limit clampLimit gave it and what it returned or threw.                 *)

QueryCall(op, query, startDate, endDate, limit, out) ==
    [op |-> op, query |-> query, startDate |-> startDate, endDate |-> endDate,
     limit |-> limit, clampedLimit |-> clampLimit(DefaultLimit(limit)), out |-> out]

serverVars == <<mode, procState, fsChangesLeft, widgetFs, processEnv, widgetsInitialized,
                articleListWidget, articlePreviewWidget, requestVars, hist, sessions>>

QLoad ==
    /\ qcall.op = "none"
    /\ LET load == loadMagazineArticles(corpusFile)
       IN  /\ magazineArticles' = load.magazineArticles
           /\ articlesBySlug' = load.articlesBySlug
           /\ qcall' = [op |-> IF load.threw THEN "loadFailed" ELSE "load"]
    /\ UNCHANGED <<serverVars, corpusFile>>

QSearch(query, limit) ==
    /\ qcall.op = "load"
    /\ qcall' = QueryCall("search", query, None, None, limit,
                          Returned(searchArticles(magazineArticles, query, limit)))
    /\ UNCHANGED <<serverVars, corpusFile, magazineArticles, articlesBySlug>>

QSearchByTitle(query, limit) ==
    /\ qcall.op = "load"
    /\ qcall' = QueryCall("searchByTitle", query, None, None, limit,
                          Returned(searchArticlesByTitle(magazineArticles, query, limit)))
    /\ UNCHANGED <<serverVars, corpusFile, magazineArticles, articlesBySlug>>

QFilterByDateRange(startDate, endDate, limit) ==
    /\ qcall.op = "load"
    /\ qcall' = QueryCall("filterByDateRange", <<>>, startDate, endDate, limit,
                          filterArticlesByDateRange(magazineArticles, startDate, endDate, limit))
    /\ UNCHANGED <<serverVars, corpusFile, magazineArticles, articlesBySlug>>

QFilterByAuthor(authorName, limit) ==
    /\ qcall.op = "load"
    /\ qcall' = QueryCall("filterByAuthor", authorName, None, None, limit,
                          Returned(filterArticlesByAuthor(magazineArticles, authorName, limit)))
    /\ UNCHANGED <<serverVars, corpusFile, magazineArticles, articlesBySlug>>

\* the list_recent_articles handler's query:
\*   ({ limit = CONFIG.DEFAULT_LIMIT }) => filterArticlesByDateRange(undefined, undefined, limit)
QListRecent(limit) ==
    /\ qcall.op = "load"
    /\ qcall' = QueryCall("listRecent", <<>>, None, None, limit,
                          filterArticlesByDateRange(magazineArticles, None, None,
                                                    DefaultLimit(limit)))
    /\ UNCHANGED <<serverVars, corpusFile, magazineArticles, articlesBySlug>>

\* the i-th article of the corpus rendered on the text path (formatArticleList,
\* formatArticlePreview) and on the structured path
\* (mapMagazineArticleToWidgetArticle)
QRender(i) ==
    /\ qcall.op = "load"
    /\ i <= Len(magazineArticles)
    /\ qcall' = [op |-> "render",
                 article |-> magazineArticles[i],
                 list |-> formatArticleList(<<magazineArticles[i]>>),
                 preview |-> formatArticlePreview(magazineArticles[i]),
                 widget |-> mapMagazineArticleToWidgetArticle(magazineArticles[i])]
    /\ UNCHANGED <<serverVars, corpusFile, magazineArticles, articlesBySlug>>

\* clampLimit called directly, without the callers' default parameter
QClampLimit(limit) ==
    /\ qcall.op = "load"
    /\ qcall' = [op |-> "clampLimit", query |-> <<>>, startDate |-> None,
                 endDate |-> None, limit |-> limit,
                 clampedLimit |-> clampLimit(limit), out |-> Returned(<<>>)]
    /\ UNCHANGED <<serverVars, corpusFile, magazineArticles, articlesBySlug>>

InitQuery ==
    /\ mode = "serverless"
    /\ procState = "serving"
    /\ corpusFile \in CorpusFiles
    /\ fsChangesLeft = 0
    /\ widgetFs = FsNothing
    /\ processEnv = ProductionEnv
    /\ InitModule
    /\ InitRequests
    /\ hist = NoHistory
    /\ qcall = NoQueryCall
    /\ sessions = NoSessions

NextQuery ==
    \/ QLoad
    \/ \E query \in Queries, limit \in QueryLimits : QSearch(query, limit)
    \/ \E query \in Queries, limit \in QueryLimits : QSearchByTitle(query, limit)
    \/ \E startDate \in DateBounds, endDate \in DateBounds, limit \in QueryLimits :
           QFilterByDateRange(startDate, endDate, limit)
    \/ \E authorName \in Queries, limit \in QueryLimits : QFilterByAuthor(authorName, limit)
    \/ \E limit \in QueryLimits : QListRecent(limit)
    \/ \E i \in 1..MaxCorpusLen : QRender(i)
    \/ \E limit \in AllLimits : QClampLimit(limit)

SpecQuery == InitQuery /\ [][NextQuery]_vars

-----------------------------------------------------------------------------
(* cors-utils.js on its own: the process starts in some environment and    *)
(* getCorsHeaders or ensureStreamableAccept is called for a request.       *)

ProcessEnvs ==
    [NODE_ENV : {None, Some(<<"production">>), Some(<<"development">>)},
     ALLOWED_ORIGIN : {None, Some(<<>>), Some(<<" ">>), Some(<<",", " ">>), Some(<<"*">>),
                       Some(<<"https://a.example">>),
                       Some(<<" ", "https://a.example", " ", ",", ",", "https://b.example">>)}]

\* the Origin header of a request: not sent, empty, or an origin
RequestOrigins ==
    {None, Some(<<>>), Some(<<"*">>), Some(<<"null">>), Some(<<"https://chatgpt.com">>),
     Some(<<"https://chat.openai.com">>), Some(<<"https://a.example">>),
     Some(<<"https://b.example">>), Some(<<"https://evil.example">>)}

\* the additional headers the callers pass: none (the health answer),
\* the exposed session header (handleMcpRequest), the preflight headers
AdditionalHeaders ==
    {NoHeaders,
     [k \in {"Access-Control-Expose-Headers"} |-> <<"Mcp-Session-Id">>],
     preflightHeaders(None)}

\* the Accept header of a request
AcceptHeaders ==
    {AbsentHeader,
     StringHeader(<<>>),
     StringHeader(<<"text/event-stream">>),
     StringHeader(<<"TEXT/EVENT-STREAM">>),
     StringHeader(<<"application/json">>),
     StringHeader(<<"APPLICATION/JSON">>),
     StringHeader(<<"application/json", ",", " ", "Text/Event-Stream">>),
     StringHeader(<<"*/*">>),
     StringHeader(<<" ", "*/*", " ">>),
     StringHeader(<<"*/*", ";", "q=0.8">>),
     ArrayHeader(<<>>),
     ArrayHeader(<<<<"*/*">>>>),
     ArrayHeader(<<<<"application/json">>>>),
     ArrayHeader(<<<<"application/json">>, <<"text/event-stream">>>>),
     ArrayHeader(<<<<"text/html">>, <<"application/json">>>>)}

QEnsureStreamableAccept(rawAccept) ==
    /\ qcall.op = "none"
    /\ qcall' = [op |-> "ensureStreamableAccept",
                 rawAccept |-> rawAccept,
                 accept |-> ensureStreamableAccept(rawAccept)]
    /\ UNCHANGED <<serverVars, corpusFile, magazineArticles, articlesBySlug>>

QGetCorsHeaders(requestOrigin, additionalHeaders) ==
    /\ qcall.op = "none"
    /\ qcall' = [op |-> "getCorsHeaders",
                 requestOrigin |-> requestOrigin,
                 headers |-> getCorsHeaders(processEnv, requestOrigin, additionalHeaders)]
    /\ UNCHANGED <<serverVars, corpusFile, magazineArticles, articlesBySlug>>

InitCors ==
    /\ mode = "serverless"
    /\ procState = "serving"
    /\ corpusFile = [state |-> "missing", content |-> <<>>]
    /\ fsChangesLeft = 0
    /\ widgetFs = FsNothing
    /\ processEnv \in ProcessEnvs
    /\ InitModule
    /\ InitRequests
    /\ hist = NoHistory
    /\ qcall = NoQueryCall
    /\ sessions = NoSessions

NextCors ==
    \/ \E requestOrigin \in RequestOrigins, additionalHeaders \in AdditionalHeaders :
           QGetCorsHeaders(requestOrigin, additionalHeaders)
    \/ \E rawAccept \in AcceptHeaders : QEnsureStreamableAccept(rawAccept)

SpecCors == InitCors /\ [][NextCors]_vars

-----------------------------------------------------------------------------
(* widget.js on its own: buildWidgetHtml is called for a widget name on    *)
(* some file system, and the assets it found are escaped and inlined.      *)

MaxHash == 2          \* hashed builds of one asset in the asset directory

\* the asset files the directory may hold for the article list
AssetPool ==
    {Asset("article-list", h, ext) : h \in 0..MaxHash, ext \in {".js", ".css"}}

\* File systems: the prebuilt document of the article list in any state;
\* without an asset directory nothing else, with one any set of assets, a
\* build of the other widget, and the fallback document in any state.
WidgetFileSystems ==
    {[prebuilt |-> [n \in WidgetNames |-> IF n = "article-list" THEN p ELSE "absent"],
      assetsDir |-> FALSE, files |-> {}, fallback |-> "absent"] :
        p \in {"absent", "file", "unreadable"}}
    \cup
    {[prebuilt |-> [n \in WidgetNames |-> IF n = "article-list" THEN x[1] ELSE "absent"],
      assetsDir |-> TRUE,
      files |-> x[2] \cup {Asset("article-preview", 1, ".js")},
      fallback |-> x[3]] :
        x \in {"absent", "file", "unreadable"} \X (SUBSET AssetPool)
                  \X {"absent", "file", "unreadable"}}

\* contents of a script or style file
AssetSources ==
    {<<>>,
     <<"a">>,
     <<"a", "<", "/", "s", "c", "r", "i", "p", "t", ">">>,
     <<"<", "/", "S", "C", "R", "I", "P", "T">>,
     <<"<", "/", "S", "t", "y", "l", "e", ">", "<", "/", "s", "t", "y", "l", "e">>,
     <<"<", "/", "s", "<", "/", "s", "c", "r", "i", "P", "t", "<", "/", "s", "t", "y", "l", "E">>}

QBuildWidgetHtml(entryName) ==
    /\ qcall.op = "none"
    /\ qcall' = [op |-> "buildWidgetHtml", entry |-> entryName,
                 out |-> buildWidgetHtml(entryName, widgetFs)]
    /\ UNCHANGED <<serverVars, corpusFile, magazineArticles, articlesBySlug>>

\* buildWidgetHtml from the point where both assets were found: their
\* contents are read, escaped and put into the document
QInline(entryName, jsContents, cssContents) ==
    /\ qcall.op = "buildWidgetHtml"
    /\ qcall.entry = entryName
    /\ ~qcall.out.threw
    /\ qcall.out.value.kind = "inlined"
    /\ qcall' = [op |-> "inline", entry |-> entryName,
                 jsContents |-> jsContents, cssContents |-> cssContents,
                 safeJs |-> escapeForInlineScript(jsContents),
                 safeCss |-> escapeForInlineStyle(cssContents),
                 document |-> InlineDocument(entryName,
                                             escapeForInlineStyle(cssContents),
                                             escapeForInlineScript(jsContents))]
    /\ UNCHANGED <<serverVars, corpusFile, magazineArticles, articlesBySlug>>

InitWidget ==
    /\ mode = "serverless"
    /\ procState = "serving"
    /\ corpusFile = [state |-> "missing", content |-> <<>>]
    /\ fsChangesLeft = 0
    /\ widgetFs \in WidgetFileSystems
    /\ processEnv = ProductionEnv
    /\ InitModule
    /\ InitRequests
    /\ hist = NoHistory
    /\ qcall = NoQueryCall
    /\ sessions = NoSessions

NextWidget ==
    \/ \E entryName \in WidgetNames : QBuildWidgetHtml(entryName)
    \/ \E entryName \in WidgetNames, jsContents \in AssetSources, cssContents \in AssetSources :
           QInline(entryName, jsContents, cssContents)

SpecWidget == InitWidget /\ [][NextWidget]_vars

-----------------------------------------------------------------------------
(* unic-server/src/server.ts: the SSE server.  It loads its corpus when    *)
(* the module is loaded, keeps the live sessions in the Map `sessions`,    *)
(* keyed by the id the transport generated, and answers resource reads.    *)
(* In this specification pc gives, per transport id, the position of       *)
(* handleSseRequest ("none", "connecting", "open", "failed"), and hist     *)
(* the ids that were opened, that closed and that failed to connect.       *)

MaxSseSessions == 3   \* SSE connections the process accepts

\* the ids the transports generate (randomUUID), in the order generated;
\* an id is a string of one token
GeneratedIds == <<"id1", "id2", "id3", "id4", "id5">>
SessionIds == {<<GeneratedIds[i]>> : i \in 1..MaxSseSessions}

\* loadmagazineArticles(): the records with a truthy slug and title; any
\* failure leaves the corpus empty and the server running
loadmagazineArticles(file) ==
    IF file.state = "ok"
    THEN LET keep(article) == Truthy(article.slug) /\ Truthy(article.title)
         IN  SelectSeq(file.content, keep)
    ELSE <<>>

\* getArticleBySlug(slug): Array.prototype.find, None for undefined
getArticleBySlug(articles, slug) ==
    LET hits == {i \in 1..Len(articles) : articles[i].slug = Some(slug)}
    IN  IF hits = {} THEN None
        ELSE Some(articles[CHOOSE i \in hits : \A j \in hits : i <= j])

\* new Error(message)
Error(message) == [name |-> "Error", message |-> message]

\* uri.match(/^blog:\/\/article\/(.+)$/): the slug, None for no match
matchArticleUri(uri) ==
    IF Len(uri) >= 2 /\ Head(uri) = "blog://article/" THEN Some(Tail(uri)) ELSE None

\* the ReadResourceRequestSchema handler
readResource(articles, uri) ==
    LET match == matchArticleUri(uri)
        article == getArticleBySlug(articles, Get(match))
    IN  IF ~IsSome(match) THEN Thrown(Error(<<"Invalid resource URI: ">> \o uri))
        ELSE IF ~IsSome(article) THEN Thrown(Error(<<"Article not found: ">> \o Get(match)))
        ELSE Returned([uri |-> uri, mimeType |-> "application/json", text |-> Get(article)])

\* Map.prototype.set / Map.prototype.delete / Map.prototype.get
MapSet(map, key, value) ==
    [k \in (DOMAIN map) \cup {key} |-> IF k = key THEN value ELSE map[k]]
MapDelete(map, key) == [k \in (DOMAIN map) \ {key} |-> map[k]]
MapGet(map, key) == IF key \in DOMAIN map THEN Some(map[key]) ELSE None

\* the record kept for a session: its server and its transport
SessionRecord(id) == [server |-> id, transport |-> id]

\* A plausible slip: the catch block answers 500 and leaves the entry.
handleSseRequestCatchKeeps(map, sessionId) == map

\* handleSseRequest, catch block: sessions.delete(sessionId)
handleSseRequestCatch(map, sessionId) == MapDelete(map, sessionId)

\* transport.onclose: sessions.delete(sessionId); await server.close()
onclose(map, sessionId) == MapDelete(map, sessionId)

\* handlePostMessage(req, res, url): the answer, for the sessionId of the
\* query string and for what session.transport.handlePostMessage does
handlePostMessage(map, sessionId, transportThrows, headersSent) ==
    LET found == MapGet(map, Get(sessionId))
    IN  IF ~Truthy(sessionId)
        THEN [status |-> 400, body |-> "Missing sessionId query parameter"]
        ELSE IF ~IsSome(found)
        THEN [status |-> 404, body |-> "Unknown session"]
        ELSE IF transportThrows /\ ~headersSent
        THEN [status |-> 500, body |-> "Failed to process message"]
        ELSE [status |-> 202, body |-> "transport"]

\* Files the SSE server finds at BLOG_DATA_PATH.
SseCorpusFiles ==
    {[state |-> "ok", content |-> <<RawIntro, RawPadded, RawDuplicate>>],
     [state |-> "ok", content |-> <<>>],
     [state |-> "missing", content |-> <<>>]}

\* the sessionId query parameters of a POST: none, empty, the ids the
\* transports may generate, and one they never do
PostSessionIds ==
    {None, Some(<<>>), Some(<<"nope">>)} \cup {Some(id) : id \in SessionIds}

ResourceUris ==
    {<<"blog://article/", "a">>, <<"blog://article/", "z">>,
     <<"blog://article/", " ", "c", " ">>, <<"blog://article/">>,
     <<"blog://widget/", "a">>}

sseVars == <<mode, procState, corpusFile, fsChangesLeft, widgetFs, processEnv,
             widgetsInitialized, articleListWidget, articlePreviewWidget,
             magazineArticles, articlesBySlug, req, res, session, resClosed>>

\* the id the next SSEServerTransport generates
FreshId == <<GeneratedIds[Cardinality(hist.opened) + 1]>>

\* handleSseRequest up to `await server.connect(transport)`
SseConnect ==
    /\ Cardinality(hist.opened) < MaxSseSessions
    /\ sessions' = MapSet(sessions, FreshId, SessionRecord(FreshId))
    /\ pc' = [pc EXCEPT ![FreshId] = "connecting"]
    /\ hist' = [hist EXCEPT !.opened = @ \cup {FreshId}]
    /\ UNCHANGED <<sseVars, qcall>>

\* await server.connect(transport) resolves
SseConnectOk(id) ==
    /\ pc[id] = "connecting"
    /\ pc' = [pc EXCEPT ![id] = "open"]
    /\ UNCHANGED <<sseVars, sessions, hist, qcall>>

\* await server.connect(transport) rejects
SseConnectFails(id) ==
    /\ pc[id] = "connecting"
    /\ sessions' = handleSseRequestCatch(sessions, id)
    /\ pc' = [pc EXCEPT ![id] = "failed"]
    /\ hist' = [hist EXCEPT !.failed = @ \cup {id}]
    /\ UNCHANGED <<sseVars, qcall>>

\* the transport of a session closes (the client went away, or the server
\* closed it); onclose may fire while connect is still awaited
TransportClose(id) ==
    /\ pc[id] \in {"connecting", "open"}
    /\ id \notin hist.closed
    /\ sessions' = onclose(sessions, id)
    /\ hist' = [hist EXCEPT !.closed = @ \cup {id}]
    /\ UNCHANGED <<sseVars, pc, qcall>>

\* POST /mcp/messages?sessionId=...
PostMessage(sessionId, transportThrows, headersSent) ==
    /\ qcall' = [op |-> "post", sessionId |-> sessionId,
                 answer |-> handlePostMessage(sessions, sessionId,
                                              transportThrows, headersSent)]
    /\ UNCHANGED <<sseVars, sessions, pc, hist>>

\* a resources/read message posted to a live session reaches its server
ReadResource(id, uri) ==
    /\ id \in DOMAIN sessions
    /\ pc[id] = "open"
    /\ qcall' = [op |-> "readResource", sessionId |-> Some(id), uri |-> uri,
                 out |-> readResource(magazineArticles, uri)]
    /\ UNCHANGED <<sseVars, sessions, pc, hist>>

InitSse ==
    /\ mode = "local"
    /\ procState = "serving"
    /\ corpusFile \in SseCorpusFiles
    /\ fsChangesLeft = 0
    /\ widgetFs = FsNothing
    /\ processEnv = ProductionEnv
    /\ widgetsInitialized = FALSE
    /\ articleListWidget = None
    /\ articlePreviewWidget = None
    /\ magazineArticles = loadmagazineArticles(corpusFile)
    /\ articlesBySlug = EmptyIndex
    /\ req = [r \in Requests |-> NoRequest]
    /\ res = [r \in Requests |-> NoResponse]
    /\ session = [r \in Requests |-> NoSession]
    /\ resClosed = [r \in Requests |-> FALSE]
    /\ pc = [id \in SessionIds |-> "none"]
    /\ hist = [opened |-> {}, closed |-> {}, failed |-> {}]
    /\ qcall = NoQueryCall
    /\ sessions = NoSessions

NextSse ==
    \/ SseConnect
    \/ \E id \in SessionIds : SseConnectOk(id)
    \/ \E id \in SessionIds : SseConnectFails(id)
    \/ \E id \in SessionIds : TransportClose(id)
    \/ \E sessionId \in PostSessionIds, transportThrows \in BOOLEAN, headersSent \in BOOLEAN :
           PostMessage(sessionId, transportThrows, headersSent)
    \/ \E id \in SessionIds, uri \in ResourceUris : ReadResource(id, uri)

SpecSse == InitSse /\ [][NextSse]_vars

-----------------------------------------------------------------------------
(* Properties of the server (specification Spec).                          *)

\* the descriptor a tool's handler consults
WidgetOf(tool) ==
    IF tool = "search_articles" THEN articleListWidget ELSE articlePreviewWidget

WidgetNameOf(tool) ==
    IF tool = "search_articles" THEN "article-list" ELSE "article-preview"

\* the requests a tools/call was dispatched for
Answered == {r \in Requests : res[r].kind = "tool"}

\* a widget name with neither a prebuilt document nor an asset directory
NothingToResolve(name) == widgetFs.prebuilt[name] = "absent" /\ ~widgetFs.assetsDir

\* C1: when a widget name has neither a prebuilt document nor an asset
\* directory, resolution leaves a null descriptor, and every
\* search_articles / get_article_preview call answered afterwards is
\* text-only: the full formatted text (for an article that was found), no
\* structured payload and no widget metadata.
C1_UnavailableIsTextOnly ==
    widgetsInitialized =>
        /\ NothingToResolve("article-list") => articleListWidget = None
        /\ NothingToResolve("article-preview") => articlePreviewWidget = None
        /\ \A r \in Answered :
              NothingToResolve(WidgetNameOf(res[r].call.tool)) =>
                  /\ Get(res[r].result).structuredContent = None
                  /\ Get(res[r].result).meta = None
                  /\ Get(res[r].result).text.kind \in {"full", "notFound"}

View(b) == <<session[b], resClosed[b], pc[b], res[b], req[b]>>

\* C3: the close event of one connection closes that connection's transport
\* and server and nothing of any other connection, and leaves the corpus,
\* the slug index and the widget descriptors alone; and once any session
\* exists (a request has its server and transport), no step of any request
\* writes the state the sessions share.
C3_SessionIsolation ==
    /\ [][\A a \in Requests :
            (~resClosed[a] /\ resClosed'[a]) =>
                /\ session'[a].transportCloseCalls = session[a].transportCloseCalls + 1
                /\ session'[a].serverCloseCalls = session[a].serverCloseCalls + 1
                /\ \A b \in Requests \ {a} : View(b)' = View(b)
                /\ UNCHANGED moduleVars]_vars
    /\ [][(\E r \in Requests : session[r].created) => UNCHANGED moduleVars]_vars

\* C3 witness: B's tool call was answered after A's response had closed,
\* with A's transport and server closed and B's still open.
C3_Witness ==
    \E a \in Requests, b \in Answered :
        /\ a # b
        /\ a \in res[b].closedAtAnswer
        /\ b \notin res[b].closedAtAnswer
        /\ session[a].transportCloseCalls = 1 /\ session[a].serverCloseCalls = 1
        /\ session[b].transportCloseCalls = 0 /\ session[b].serverCloseCalls = 0

C5_BuiltAtMostOnce ==
    /\ hist.loadCalls <= 1
    /\ \A n \in WidgetNames : hist.resolutions[n] <= 1

\* C6: the initialization body runs once whatever the interleaving of the
\* first requests, and every server instance is created from a fully
\* initialized module state.
C6_InitializedOnceAtomically ==
    /\ hist.initRuns <= 1
    /\ \A r \in Requests :
          session[r].created =>
              /\ widgetsInitialized
              /\ session[r].searchMeta = ToolMeta(articleListWidget)
              /\ session[r].previewMeta = ToolMeta(articlePreviewWidget)

IsProbe(r) == pc[r] # "none" /\ req[r].method = "GET" /\ ~req[r].hasSession

\* C7: a GET without mcp-session-id is answered 200 with the static text;
\* handling it runs no initialization, creates no server or transport and
\* dispatches nothing, and the step that handles it changes neither the
\* module state nor any session.
C7_ProbeShortCircuits ==
    /\ [](\A r \in Requests :
             IsProbe(r) =>
                 /\ res[r] = HealthResponse
                 /\ pc[r] = "done"
                 /\ ~session[r].created
                 /\ r \notin hist.initBy)
    /\ [][\A r \in Requests :
             (pc[r] = "none" /\ IsProbe(r)') =>
                 UNCHANGED <<moduleVars, session, hist>>]_vars

\* C7 witness: a probe answered in a process whose initialization has not
\* happened and would fail.
C7_Witness ==
    \E r \in Requests :
        /\ IsProbe(r)
        /\ res[r].status = 200
        /\ ~widgetsInitialized
        /\ corpusFile.state = "missing"

\* C8: a request that needs the corpus while the corpus file is missing or
\* unparseable fails before a server is bound and before anything is
\* dispatched; a local server that cannot load the corpus never serves; and
\* every server instance is bound to the whole corpus of a file that loaded.
C8_NeverServesWithoutCorpus ==
    /\ \A r \in Requests :
          (/\ pc[r] # "none"
           /\ req[r].method # "OPTIONS"
           /\ ~isHealthCheck(req[r].method, req[r].hasSession)
           /\ ~req[r].initializedBefore
           /\ req[r].fileSeen # "ok") =>
              /\ ~session[r].created
              /\ pc[r] = "done"
              /\ res[r].status = 500
              /\ res[r].result = None
    /\ \A r \in Requests :
          session[r].created =>
              /\ widgetsInitialized
              /\ IsSome(hist.loadedFrom)
              /\ Get(hist.loadedFrom).state = "ok"
              /\ magazineArticles = loadMagazineArticles(Get(hist.loadedFrom)).magazineArticles
    /\ \A r \in Answered : session[r].created
    /\ procState = "crashed" => \A r \in Requests : pc[r] = "none"
    /\ (mode = "local" /\ procState = "serving") => widgetsInitialized

\* C8 witness: a request failed on the broken corpus file and a later
\* request, after the file was repaired, was served from the loaded corpus.
C8_Witness ==
    \E a \in Requests, b \in Answered :
        /\ a < b
        /\ res[a].kind = "errorJson"
        /\ req[a].fileSeen = "badjson"
        /\ magazineArticles # <<>>

-----------------------------------------------------------------------------
(* Properties of the article service (specification SpecQuery).            *)

IsQuery == qcall.op \in {"search", "searchByTitle", "filterByDateRange", "filterByAuthor"}

Unparseable(bound) == IsSome(bound) /\ ~isValidDate(Get(bound))

\* C9: a call of filterArticlesByDateRange with a supplied start or end
\* bound that does not parse as a date throws the validation error naming
\* an unparseable bound, and leaves the corpus as loaded.
C9_InvalidBoundRejected ==
    qcall.op = "filterByDateRange" =>
        /\ Unparseable(qcall.startDate) =>
              qcall.out.threw /\ qcall.out.error = "Invalid start date format"
        /\ (Unparseable(qcall.endDate) /\ ~Unparseable(qcall.startDate)) =>
              qcall.out.threw /\ qcall.out.error = "Invalid end date format"
        /\ magazineArticles = loadMagazineArticles(corpusFile).magazineArticles

\* C10: the limit a call works with is in 1..MAX_LIMIT: MAX_LIMIT for a
\* requested limit above it, 1 for one below 1, the requested limit when it
\* is in range, DEFAULT_LIMIT when none is given; and a query returns no
\* more articles than that.
C10_EffectiveLimit ==
    (IsQuery \/ qcall.op = "clampLimit") =>
        /\ qcall.clampedLimit \in 1..MAX_LIMIT
        /\ qcall.limit = None => qcall.clampedLimit = DEFAULT_LIMIT
        /\ (qcall.limit # None /\ Get(qcall.limit) > MAX_LIMIT) =>
              qcall.clampedLimit = MAX_LIMIT
        /\ (qcall.limit # None /\ Get(qcall.limit) < 1) => qcall.clampedLimit = 1
        /\ (qcall.limit # None /\ Get(qcall.limit) \in 1..MAX_LIMIT) =>
              qcall.clampedLimit = Get(qcall.limit)
        /\ (IsQuery /\ ~qcall.out.threw) => Len(qcall.out.value) <= qcall.clampedLimit

\* C10 witness: a date-range query with limit 0 over a corpus of several
\* articles returned exactly one.
C10_Witness ==
    /\ qcall.op = "filterByDateRange"
    /\ qcall.limit = Some(0)
    /\ Len(magazineArticles) > 1
    /\ ~qcall.out.threw
    /\ Len(qcall.out.value) = 1

\* the recorded query called again on the same corpus with another limit
WithLimit(limit) ==
    CASE qcall.op = "search" ->
            Returned(searchArticles(magazineArticles, qcall.query, limit))
      [] qcall.op = "searchByTitle" ->
            Returned(searchArticlesByTitle(magazineArticles, qcall.query, limit))
      [] qcall.op = "filterByAuthor" ->
            Returned(filterArticlesByAuthor(magazineArticles, qcall.query, limit))
      [] OTHER ->
            filterArticlesByDateRange(magazineArticles, qcall.startDate, qcall.endDate, limit)

\* C11: a search or filter call with a non-positive or missing limit
\* returns what the same call returns with the default limit 10; whatever
\* the limit, a call with matches returns at least one article and no call
\* returns more than MAX_LIMIT articles.
C11_NonPositiveUsesDefault ==
    (IsQuery /\ ~qcall.out.threw) =>
        /\ (qcall.limit = None \/ Get(qcall.limit) <= 0) =>
              qcall.out.value = WithLimit(Some(DEFAULT_LIMIT)).value
        /\ Len(WithLimit(Some(MAX_LIMIT)).value) > 0 => Len(qcall.out.value) > 0
        /\ Len(qcall.out.value) <= MAX_LIMIT

\* a bound that is left out or parses as a date
ValidBound(bound) == bound = None \/ isValidDate(Get(bound))

IsSortedQuery == qcall.op \in {"filterByDateRange", "filterByAuthor", "listRecent"}

\* the sorted queries called with arguments the service accepts
SortedQueryReturned ==
    /\ IsSortedQuery
    /\ ValidBound(qcall.startDate)
    /\ ValidBound(qcall.endDate)
    /\ ~qcall.out.threw

TimeOf(article) == getTime(article.publicationDate)

\* start <= d <= end, a bound left out leaving its side open
InRange(article, startDate, endDate) ==
    /\ startDate = None \/ TimeOf(article) >= getTime(Get(startDate))
    /\ endDate = None \/ TimeOf(article) <= getTime(Get(endDate))

\* the articles of the corpus the recorded sorted query is about, in load order
Matches ==
    LET ByAuthor(article) == authorMatches(article, toLowerCase(qcall.query))
        ByDate(article) == InRange(article, qcall.startDate, qcall.endDate)
    IN  IF qcall.op = "filterByAuthor"
        THEN SelectSeq(magazineArticles, ByAuthor)
        ELSE SelectSeq(magazineArticles, ByDate)

Count(seq, a) == Cardinality({i \in 1..Len(seq) : seq[i] = a})

\* C12: with a limit L in 1..MAX_LIMIT (the default counted as 10),
\* filterArticlesByDateRange and filterArticlesByAuthor return min(L, N) of
\* the N matches, and no match left out is dated strictly later than an
\* article returned.
C12_NewestMatchesKept ==
    (/\ SortedQueryReturned
     /\ qcall.op # "listRecent"
     /\ Get(DefaultLimit(qcall.limit)) \in 1..MAX_LIMIT) =>
        LET out == qcall.out.value
            L == Get(DefaultLimit(qcall.limit))
        IN  /\ Len(out) = Min(L, Len(Matches))
            /\ \A i \in 1..Len(out) : Count(out, out[i]) <= Count(Matches, out[i])
            /\ \A i \in 1..Len(Matches) :
                  Count(out, Matches[i]) < Count(Matches, Matches[i]) =>
                      \A j \in 1..Len(out) : TimeOf(out[j]) >= TimeOf(Matches[i])

\* C12 witness: a date-range query with limit 1 over several matches of
\* different dates returned the newest one, which is not the first match
\* in load order.
C12_Witness ==
    /\ qcall.op = "filterByDateRange"
    /\ SortedQueryReturned
    /\ qcall.limit = Some(1)
    /\ Len(Matches) >= 2
    /\ Len(qcall.out.value) = 1
    /\ TimeOf(qcall.out.value[1]) > TimeOf(Matches[1])

\* the entries of seq dated t, in the order of seq
DatedAt(seq, t) ==
    LET At(article) == TimeOf(article) = t
    IN  SelectSeq(seq, At)

IsPrefix(p, q) == Len(p) <= Len(q) /\ SubSeq(q, 1, Len(p)) = p

\* C13: a result of filterArticlesByDateRange, filterArticlesByAuthor or
\* list_recent_articles is in descending date order, and its entries of one
\* date are the first matches of that date in load order.
C13_DescendingStable ==
    SortedQueryReturned =>
        LET out == qcall.out.value
        IN  /\ \A i \in 1..(Len(out) - 1) : TimeOf(out[i]) >= TimeOf(out[i + 1])
            /\ \A i \in 1..Len(out) :
                  IsPrefix(DatedAt(out, TimeOf(out[i])), DatedAt(Matches, TimeOf(out[i])))

\* C13 witness: list_recent_articles returned three articles, a newer one
\* loaded last in front of two different articles of one date.
C13_Witness ==
    /\ qcall.op = "listRecent"
    /\ ~qcall.out.threw
    /\ Len(qcall.out.value) = 3
    /\ qcall.out.value[1] = magazineArticles[3]
    /\ TimeOf(qcall.out.value[2]) = TimeOf(qcall.out.value[3])
    /\ qcall.out.value[2] # qcall.out.value[3]

\* the recorded term is a substring, whatever the case, of the title, of
\* the summary or of the author display name
MatchesTerm(article) ==
    LET lowerQuery == toLowerCase(qcall.query)
    IN  \/ includes(toLowerCase(article.title), lowerQuery)
        \/ IsSome(article.lead) /\ includes(toLowerCase(Get(article.lead)), lowerQuery)
        \/ includes(toLowerCase(getAuthorName(article)), lowerQuery)

\* C14: searchArticles returns the first (effective limit) articles, in
\* load order, of those whose title, summary or author display name
\* (getAuthorName: the name, or 'Editorial team') contains the term.
C14_SearchMatchesDisplayName ==
    qcall.op = "search" =>
        qcall.out.value = slice(SelectSeq(magazineArticles, MatchesTerm), qcall.clampedLimit)

\* the corpus of two articles a (2024-01-01, "Intro to X") and
\* b (2024-02-01, "X continued")
ExampleCorpus == <<NormalizeArticle(RawIntro), NormalizeArticle(RawContinued)>>

\* C15: filterArticlesByDateRange returns matches only, and all of them
\* when the limit allows, a match being an article dated d with
\* start <= d <= end, both bounds included and a bound left out leaving its
\* side open; over the corpus a, b filterArticlesByDateRange(undefined,
\* '2024-01-15', 10) returns a alone and searchArticles('x', 10) returns a, b.
C15_InclusiveBounds ==
    /\ (qcall.op = "filterByDateRange" /\ SortedQueryReturned) =>
          LET out == qcall.out.value
          IN  /\ \A i \in 1..Len(out) : Count(out, out[i]) <= Count(Matches, out[i])
              /\ Len(Matches) <= qcall.clampedLimit =>
                    \A i \in 1..Len(Matches) :
                        Count(out, Matches[i]) = Count(Matches, Matches[i])
    /\ (/\ magazineArticles = ExampleCorpus
        /\ qcall.op = "filterByDateRange"
        /\ qcall.startDate = None
        /\ qcall.endDate = Some(<<"2024-01-15">>)
        /\ qcall.limit = Some(10)) =>
          (~qcall.out.threw /\ qcall.out.value = <<ExampleCorpus[1]>>)
    /\ (/\ magazineArticles = ExampleCorpus
        /\ qcall.op = "search"
        /\ qcall.query = <<"x">>
        /\ qcall.limit = Some(10)) =>
          qcall.out.value = ExampleCorpus

\* C15 witness: over the corpus a, b a query ending at b's date, with no
\* start, returned b and a.
C15_Witness ==
    /\ magazineArticles = ExampleCorpus
    /\ qcall.op = "filterByDateRange"
    /\ qcall.startDate = None
    /\ qcall.endDate = Some(ExampleCorpus[2].publicationDate)
    /\ ~qcall.out.threw
    /\ qcall.out.value = <<ExampleCorpus[2], ExampleCorpus[1]>>

\* an article of the runtime corpus as the data model wants it
WellFormed(article) ==
    /\ article.slug # <<>>
    /\ article.title # <<>>
    /\ isValidDate(article.publicationDate)

\* a raw record with a slug and a title that are not blank and a date that parses
RawWellFormed(raw) ==
    /\ IsSome(raw.slug) /\ trim(Get(raw.slug)) # <<>>
    /\ IsSome(raw.title) /\ trim(Get(raw.title)) # <<>>
    /\ IsSome(raw.publicationDate) /\ isValidDate(trim(Get(raw.publicationDate)))

\* C16: after a load every article of the corpus and of the slug index has
\* a slug, a title and a date that parses, the corpus holds one article for
\* each raw record that has the three and none for the others, and every
\* article a query returns is one of the corpus.
C16_OnlyWellFormedArticles ==
    qcall.op # "none" =>
        /\ \A i \in 1..Len(magazineArticles) : WellFormed(magazineArticles[i])
        /\ \A slug \in DOMAIN articlesBySlug :
              /\ WellFormed(articlesBySlug[slug])
              /\ \E i \in 1..Len(magazineArticles) : magazineArticles[i] = articlesBySlug[slug]
        /\ Len(magazineArticles) = Len(SelectSeq(corpusFile.content, RawWellFormed))
        /\ ((IsQuery \/ qcall.op = "listRecent") /\ ~qcall.out.threw) =>
              \A i \in 1..Len(qcall.out.value) :
                  /\ WellFormed(qcall.out.value[i])
                  /\ \E j \in 1..Len(magazineArticles) :
                        magazineArticles[j] = qcall.out.value[i]

\* C16 witness: a file of three records, one with a blank title and one
\* with a date that does not parse, was loaded as one article, which
\* list_recent_articles returned.
C16_Witness ==
    /\ qcall.op = "listRecent"
    /\ Len(corpusFile.content) = 3
    /\ \E i \in 1..3 : corpusFile.content[i] = RawBlankTitle
    /\ \E i \in 1..3 : corpusFile.content[i] = RawBadDate
    /\ Len(magazineArticles) = 1
    /\ ~qcall.out.threw
    /\ qcall.out.value = magazineArticles

\* C18: the text renderings and the structured record of an article show
\* the same author and the same link, also for an article without a link
\* (URL derived from the slug) and without an author ('Editorial team').
C18_TextAndPayloadAgree ==
    qcall.op = "render" =>
        /\ IsSome(qcall.widget)
        /\ qcall.list[1].author = Get(qcall.widget).author
        /\ qcall.preview[1].author = Get(qcall.widget).author
        /\ qcall.list[1].link = Get(qcall.widget).url
        /\ qcall.preview[1].link = Get(qcall.widget).url

-----------------------------------------------------------------------------
(* Properties of the server (specification Spec), continued.               *)

\* the answered search_articles calls whose response has a structured payload
WithPayload ==
    {r \in Answered : /\ res[r].call.tool = "search_articles"
                      /\ IsSome(Get(res[r].result).structuredContent)}

\* C17: the structured payload of a search_articles response has one
\* record for each article the search returned, in the same order, and its
\* total is the number of articles returned.
C17_PayloadKeepsEveryArticle ==
    \A r \in WithPayload :
        LET call == res[r].call
            payload == Get(Get(res[r].result).structuredContent)
            found == searchArticles(magazineArticles, call.query, DefaultLimit(call.limit))
        IN  /\ Len(payload.articles) = Len(found)
            /\ payload.total = Len(found)
            /\ \A i \in 1..Len(found) :
                  /\ payload.articles[i].slug = found[i].slug
                  /\ payload.articles[i].title = found[i].title

\* C17 witness: a payload of two articles, the second one without a link.
C17_Witness ==
    \E r \in WithPayload :
        LET call == res[r].call
            payload == Get(Get(res[r].result).structuredContent)
            found == searchArticles(magazineArticles, call.query, DefaultLimit(call.limit))
        IN  /\ Len(found) = 2
            /\ ~IsSome(found[2].link)
            /\ payload.total = 2

\* C19: a request whose handling raised an error (a failed initialization,
\* connect or handleRequest before the headers went out) is answered with
\* an error status and the fixed body, without the error's message.
C19_ErrorsAreTerse ==
    \A r \in Requests :
        res[r].status >= 400 => (res[r].kind = "error" /\ res[r].message = "")

-----------------------------------------------------------------------------
(* Properties of cors-utils.js (specification SpecCors).                   *)

\* C20: a header set of getCorsHeaders has Access-Control-Allow-Credentials
\* only when Access-Control-Allow-Origin is the request's Origin echoed
\* back and is not '*'; outside production any request origin is echoed.
C20_CredentialsOnlyWhenEchoed ==
    qcall.op = "getCorsHeaders" =>
        LET headers == qcall.headers
            allowOrigin == headers["Access-Control-Allow-Origin"]
        IN  /\ "Access-Control-Allow-Credentials" \in DOMAIN headers =>
                  /\ allowOrigin # <<"*">>
                  /\ IsSome(qcall.requestOrigin)
                  /\ allowOrigin = Get(qcall.requestOrigin)
            /\ (isDevelopment(processEnv) /\ Truthy(qcall.requestOrigin)) =>
                  allowOrigin = Get(qcall.requestOrigin)


\* the text of a header value, an array's elements joined
HeaderText(h) ==
    CASE h.kind = "absent" -> <<>>
      [] h.kind = "array" -> join(h.value, <<",">>)
      [] OTHER -> h.value

MentionsEventStream(h) ==
    includes(toLowerCase(HeaderText(h)), <<"text/event-stream">>)

\* C21: whatever Accept header a request carries (none, the empty string,
\* a string in any letter case, an array), after ensureStreamableAccept the
\* header names text/event-stream, and a header that named it already is
\* exactly the header the request came with.
C21_AcceptNamesEventStream ==
    qcall.op = "ensureStreamableAccept" =>
        /\ qcall.accept.kind # "absent"
        /\ MentionsEventStream(qcall.accept)
        /\ MentionsEventStream(qcall.rawAccept) => qcall.accept = qcall.rawAccept

\* a JSON-only Accept header had text/event-stream appended
C21_Witness ==
    /\ qcall.op = "ensureStreamableAccept"
    /\ qcall.rawAccept = StringHeader(<<"APPLICATION/JSON">>)
    /\ qcall.accept = StringHeader(<<"APPLICATION/JSON", ",", " ", "text/event-stream">>)


\* the allow-list in force: the non-empty trimmed entries of
\* ALLOWED_ORIGIN, the default list when there is none
AllowList(e) ==
    LET parts == IF IsSome(e.ALLOWED_ORIGIN) THEN split(Get(e.ALLOWED_ORIGIN), ",") ELSE <<>>
        configured == {trim(parts[i]) : i \in 1..Len(parts)} \ {<<>>}
    IN  IF configured = {}
        THEN {DEFAULT_ALLOWED_ORIGINS[i] : i \in 1..Len(DEFAULT_ALLOWED_ORIGINS)}
        ELSE configured

\* C29: in production, whatever the request's origin and whatever
\* ALLOWED_ORIGIN holds, the Access-Control-Allow-Origin returned is on the
\* allow-list in force, and it is the request's origin only if the
\* request's origin is on that list.
C29_ProductionOriginIsAllowListed ==
    (qcall.op = "getCorsHeaders" /\ processEnv.NODE_ENV = Some(<<"production">>)) =>
        /\ qcall.headers["Access-Control-Allow-Origin"] \in AllowList(processEnv)
        /\ qcall.requestOrigin = Some(qcall.headers["Access-Control-Allow-Origin"]) =>
              Get(qcall.requestOrigin) \in AllowList(processEnv)

\* the request's origin is the second entry of a configured list and is
\* echoed back
C29_Witness ==
    /\ qcall.op = "getCorsHeaders"
    /\ processEnv.NODE_ENV = Some(<<"production">>)
    /\ processEnv.ALLOWED_ORIGIN =
          Some(<<" ", "https://a.example", " ", ",", ",", "https://b.example">>)
    /\ qcall.requestOrigin = Some(<<"https://b.example">>)
    /\ qcall.headers["Access-Control-Allow-Origin"] = <<"https://b.example">>

-----------------------------------------------------------------------------
(* Properties of the server, continued (specification Spec).               *)

IsPreflight(r) == req[r].method = "OPTIONS" /\ pc[r] = "done"

\* C22: every OPTIONS request to the protocol path is answered 204 with
\* headers that allow GET, POST and DELETE, allow the requested headers
\* (content-type and mcp-session-id when none are requested) and expose
\* Mcp-Session-Id; it initializes nothing and creates no server, so it
\* reaches no tool.
C22_PreflightAnswered ==
    \A r \in Requests :
        IsPreflight(r) =>
            /\ res[r].status = 204
            /\ {"GET", "POST", "DELETE"} \subseteq
                   {res[r].headers["Access-Control-Allow-Methods"][i] :
                       i \in 1..Len(res[r].headers["Access-Control-Allow-Methods"])}
            /\ res[r].headers["Access-Control-Allow-Headers"] =
                   IF req[r].requestedHeaders \in {None, Some(<<>>)}
                   THEN <<"content-type", ", ", "mcp-session-id">>
                   ELSE Get(req[r].requestedHeaders)
            /\ res[r].headers["Access-Control-Expose-Headers"] = <<"Mcp-Session-Id">>
            /\ r \notin hist.initBy
            /\ ~session[r].created
            /\ res[r].result = None

\* a preflight that requested a header was answered before anything was
\* initialized
C22_Witness ==
    \E r \in Requests :
        /\ IsPreflight(r)
        /\ req[r].requestedHeaders = Some(<<"x-custom">>)
        /\ ~widgetsInitialized


\* C24: once the response of a request has closed, its handler gives up:
\* the request is not forwarded to the closed transport with
\* transport.handleRequest, and no tool handler runs for it.
C24_ClosedConnectionIsAbandoned ==
    [][\A r \in Requests :
          resClosed[r] =>
              /\ session'[r].handleRequestCalls = session[r].handleRequestCalls
              /\ res'[r].kind = "tool" => res[r].kind = "tool"]_vars

\* the requests a tool has answered
ToolAnswered == {r \in Requests : pc[r] = "done" /\ res[r].kind = "tool"}

-----------------------------------------------------------------------------
(* Properties of the SSE server (specification SpecSse).                   *)

\* the article URIs whose slug no article of the corpus has
UnknownSlug(uri) ==
    /\ IsSome(matchArticleUri(uri))
    /\ ~IsSome(getArticleBySlug(magazineArticles, Get(matchArticleUri(uri))))

\* C23: reading an article URI whose slug is not in the corpus fails with a
\* condition of its own kind: not with an error of the kind that a
\* malformed URI produces.
C23_NotFoundIsDistinguished ==
    (qcall.op = "readResource" /\ UnknownSlug(qcall.uri)) =>
        /\ qcall.out.threw
        /\ qcall.out.error.name #
               readResource(magazineArticles, <<"blog://widget/", "a">>).error.name


\* a step that answers a POST
IsPost == qcall' # qcall /\ qcall'.op = "post"

\* C30: the sessions map holds exactly the ids the transports generated
\* for the sessions that were opened and have neither closed nor failed to
\* connect.  A POST without sessionId is answered 400, a POST naming an id
\* that is not in the map is answered 404, and neither changes the map.
C30_SessionsAreTheLiveOnes ==
    /\ [](/\ DOMAIN sessions = hist.opened \ (hist.closed \cup hist.failed)
          /\ DOMAIN sessions \subseteq SessionIds
          /\ \A id \in DOMAIN sessions : sessions[id] = SessionRecord(id))
    /\ [][IsPost =>
            /\ ~Truthy(qcall'.sessionId) => qcall'.answer.status = 400
            /\ (Truthy(qcall'.sessionId) /\ Get(qcall'.sessionId) \notin DOMAIN sessions) =>
                  qcall'.answer.status = 404
            /\ qcall'.answer.status \in {400, 404} => sessions' = sessions]_vars

\* one session failed to connect, one closed, one is live, and a POST named
\* the closed one
C30_Witness ==
    /\ hist.failed # {}
    /\ hist.closed \ hist.failed # {}
    /\ DOMAIN sessions # {}
    /\ qcall.op = "post"
    /\ Truthy(qcall.sessionId)
    /\ Get(qcall.sessionId) \in hist.closed
    /\ qcall.answer.status = 404


-----------------------------------------------------------------------------
(* Properties of the article service, continued (specification SpecQuery). *)

\* the positions of the corpus at which an article with this slug stands
PositionsOf(slug) == {i \in 1..Len(magazineArticles) : magazineArticles[i].slug = slug}

\* C28: after a successful load the keys of the slug index are exactly the
\* slugs of the corpus and each key maps to the last article of the corpus
\* that has the slug; after a failed load the corpus and the index are
\* both empty.
C28_IndexMatchesCorpus ==
    /\ qcall.op \notin {"none", "loadFailed"} =>
          /\ DOMAIN articlesBySlug =
                {magazineArticles[i].slug : i \in 1..Len(magazineArticles)}
          /\ \A slug \in DOMAIN articlesBySlug :
                \E i \in PositionsOf(slug) :
                    /\ \A j \in PositionsOf(slug) : j <= i
                    /\ articlesBySlug[slug] = magazineArticles[i]
    /\ qcall.op = "loadFailed" =>
          /\ corpusFile.state # "ok"
          /\ magazineArticles = <<>>
          /\ articlesBySlug = EmptyIndex

\* two different articles of the loaded corpus share the slug "a", and the
\* index holds the later one
C28_Witness ==
    /\ qcall.op = "load"
    /\ \E i \in PositionsOf(<<"a">>), j \in PositionsOf(<<"a">>) :
          /\ i < j
          /\ magazineArticles[i] # magazineArticles[j]
          /\ articlesBySlug[<<"a">>] = magazineArticles[j]

-----------------------------------------------------------------------------
(* Properties of widget.js (specification SpecWidget).                     *)

\* the hashed builds {name}-*.{ext} the asset directory holds
HashedBuilds(entryName, extension) ==
    {f \in widgetFs.files : f.entry = entryName /\ f.ext = extension /\ f.hash > 0}

\* the file the resolution order picks: the greatest hashed build, the
\* un-hashed file only when there is no hashed build
Picked(f, entryName, extension) ==
    /\ f \in widgetFs.files
    /\ f.entry = entryName
    /\ f.ext = extension
    /\ \A g \in HashedBuilds(entryName, extension) : f.hash >= g.hash
    /\ f.hash = 0 => HashedBuilds(entryName, extension) = {}

\* C26: a prebuilt document that can be read is returned whatever the asset
\* directory holds; otherwise script and style are each the greatest hashed
\* build, the un-hashed file only when no hashed build exists, and the
\* document is inlined only when both were found.
C26_ResolutionOrder ==
    qcall.op = "buildWidgetHtml" =>
        /\ widgetFs.prebuilt[qcall.entry] = "file" =>
              qcall.out = Returned(Html("prebuilt", qcall.entry, None, None))
        /\ (~qcall.out.threw /\ qcall.out.value.kind = "inlined") =>
              /\ widgetFs.prebuilt[qcall.entry] = "absent"
              /\ Picked(Get(qcall.out.value.js).file, qcall.entry, ".js")
              /\ Picked(Get(qcall.out.value.css).file, qcall.entry, ".css")

\* no prebuilt document; the directory holds two hashed scripts and the
\* un-hashed one, and only the un-hashed style
C26_Witness ==
    /\ qcall.op = "buildWidgetHtml"
    /\ qcall.entry = "article-list"
    /\ widgetFs.prebuilt["article-list"] = "absent"
    /\ widgetFs.files =
          {Asset("article-list", 0, ".js"), Asset("article-list", 1, ".js"),
           Asset("article-list", 2, ".js"), Asset("article-list", 0, ".css"),
           Asset("article-preview", 1, ".js")}
    /\ ~qcall.out.threw
    /\ Get(qcall.out.value.js).file = Asset("article-list", 2, ".js")
    /\ Get(qcall.out.value.css).file = Asset("article-list", 0, ".css")

\* the first position from `from` on at which needle occurs in s, in any
\* letter case; Len(s) + 1 when it does not occur
FirstIndex(s, needle, from) ==
    LET hits == {i \in from..(Len(s) - Len(needle) + 1) :
                    toLowerCase(SubSeq(s, i, i + Len(needle) - 1)) = needle}
    IN  IF hits = {} THEN Len(s) + 1 ELSE CHOOSE i \in hits : \A j \in hits : i <= j

\* what a document holds between an opening tag and the first end tag of
\* that element after it
ElementContent(document, openingTag, endTag) ==
    LET start == FirstIndex(document, <<openingTag>>, 1) + 1
    IN  SubSeq(document, start, FirstIndex(document, endTag, start) - 1)

\* C27: the inlined script holds no '</script' and the inlined style no
\* '</style', in any letter case, so in the document the first end tag
\* after each opening tag is the document's own: the element holds the
\* whole inlined content.
C27_InlinedContentCannotCloseItsElement ==
    qcall.op = "inline" =>
        /\ FirstIndex(qcall.safeJs, ScriptEndTag, 1) > Len(qcall.safeJs)
        /\ FirstIndex(qcall.safeCss, StyleEndTag, 1) > Len(qcall.safeCss)
        /\ ElementContent(qcall.document, "<style>", StyleEndTag) = qcall.safeCss
        /\ ElementContent(qcall.document, "<script type=module>", ScriptEndTag) = qcall.safeJs
        /\ Len(qcall.safeJs) >= Len(qcall.jsContents)
        /\ Len(qcall.safeCss) >= Len(qcall.cssContents)

\* a script that holds '</SCRIPT' and a style that holds '</Style'
C27_Witness ==
    /\ qcall.op = "inline"
    /\ qcall.jsContents = <<"<", "/", "S", "C", "R", "I", "P", "T">>
    /\ qcall.safeJs = <<"<", "\\", "/", "s", "c", "r", "i", "p", "t">>
    /\ qcall.cssContents =
          <<"<", "/", "S", "t", "y", "l", "e", ">", "<", "/", "s", "t", "y", "l", "e">>

=============================================================================
